---------------------------- MODULE Spec2Model ----------------------------
(***************************************************************************)
(* Lot-edge classification (src/lib/geo/parcelAnalysis.ts) and the         *)
(* viewport spatial index (src/lib/geo/parcelViewportIndex.ts).            *)
(*                                                                         *)
(* Conventions of the model                                                *)
(*  - A Position is a pair <<x, y>> of whole metres on a local planar      *)
(*    frame (x east, y north); p[1] is the source's p[0] (longitude) and   *)
(*    p[2] is the source's p[1] (latitude).                                *)
(*  - turf's distance, bearing, pointToLineDistance and area are modelled  *)
(*    by their planar counterparts, rounded down to whole units.           *)
(*  - A text (street name, address) is a sequence of words; the regular    *)
(*    expressions of the source are modelled word by word.                 *)
(*  - Fractions are avoided by scaling: the evaluator's score              *)
(*    d + 0.45 * o is kept as 100 * d + 45 * o, the opposite-edge score    *)
(*    perp + 0.2 * mid as 10 * perp + 2 * mid.                             *)
(***************************************************************************)
EXTENDS Integers, Sequences, FiniteSets, TLC

VARIABLES
    parcel,         \* the ParcelFeature handed to analyzeParcel
    map,            \* the map provider, or null
    analysis,       \* the ParcelAnalysis returned by the latest call, or null
    trace,          \* the locals of the latest analyzeParcel call, or null
    firstAnalysis,  \* the ParcelAnalysis returned by the first call, or null
    calls,          \* number of analyzeParcel calls made so far
    coordinates,    \* toRingEdges: the ring passed in
    ringEdges,      \* toRingEdges: the edge list returned, or null
    parcels,        \* the parcel set held by the calling layer
    viewportIndex,  \* the ParcelViewportIndex built from parcels, or null
    query,          \* the latest queryParcelsInBounds arguments, or null
    selected,       \* the latest queryParcelsInBounds result, or null
    bearings,       \* parallelOrientationDiffDeg: two bearings <<a, b>>
    orientationDiffs, \* the values returned for (a, b) and for (b, a), or null
    heap,           \* the ParcelViewportIndex objects built so far, by address
    indexRef,       \* useRenderedParcels: address of the memoized viewportIndex
    reader,         \* the registered update callback (its captured values), or null
    renderedParcels, \* useRenderedParcels: the renderedParcels state
    selectedParcelId, \* useParcelSelection: the selectedParcelId state, or null
    selection,      \* selectNearestEdgeByStreetCandidate: its arguments, or null
    chosen,         \* holds the value it returned (null or an edge), or null
    opposite,       \* findOppositeEdgeIndex: its arguments and the index returned
    evaluation,     \* the evaluator: an edge, candidates and the evaluated list, or null
    finder,         \* the candidate finder: the provider's features, their candidates and the list kept, or null
    hook,           \* useParcelSelection and App: selectedParcelId, analysisOverride, computedAnalysis and map, or null
    idleCallbacks,  \* the parcel ids of the map.once('idle') callbacks not yet fired
    tiles,          \* the version of the vector tiles the map has rendered
    lastCall,       \* the last call made to the selection hook
    searchHistory,  \* useSearchHistory: the searchHistory state
    storage,        \* localStorage under HISTORY_KEY: null or the value stored
    pushResult,     \* the list the last pushSearchHistory returned, or null
    pushed,         \* the items pushed since the history was last empty, oldest first
    lastHistoryCall, \* the last call made to the history hook
    fetchPc,        \* fetchJsonWithRetry: where the call stands
    attempt,        \* its attempt counter
    fetches,        \* the number of fetch calls made
    waits,          \* the delays slept, in milliseconds, in order
    errors,         \* the errors caught, in order
    payload         \* the value returned, or null

vars == <<parcel, map, analysis, trace, firstAnalysis, calls,
          coordinates, ringEdges, parcels, viewportIndex, query, selected,
          bearings, orientationDiffs,
          heap, indexRef, reader, renderedParcels, selectedParcelId,
          selection, chosen, opposite,
          evaluation,
          finder,
          hook, idleCallbacks, tiles, lastCall,
          searchHistory, storage, pushResult, pushed, lastHistoryCall,
          fetchPc, attempt, fetches, waits, errors, payload>>

analysisVars == <<parcel, map, analysis, trace, firstAnalysis, calls>>
ringVars == <<coordinates, ringEdges>>
indexVars == <<parcels, viewportIndex, query, selected>>
orientationVars == <<bearings, orientationDiffs>>
renderVars == <<heap, indexRef, reader, renderedParcels, selectedParcelId>>
selectionVars == <<selection, chosen>>
oppositeVars == <<opposite>>
evaluatorVars == <<evaluation>>
finderVars == <<finder>>
hookVars == <<hook, idleCallbacks, tiles, lastCall>>
historyVars == <<searchHistory, storage, pushResult, pushed, lastHistoryCall>>
fetchVars == <<fetchPc, attempt, fetches, waits, errors, payload>>

\* null where the source holds a string or null (roadKind).
Null == "null"

\* null where the source holds a number or null (roadDistanceMeters,
\* orientationDiffDeg).
NoNumber == -1

-----------------------------------------------------------------------------
(* Generic helpers                                                         *)

Max(a, b) == IF a >= b THEN a ELSE b

Min(a, b) == IF a <= b THEN a ELSE b

Abs(a) == IF a < 0 THEN -a ELSE a

\* A value that may be null is a sequence of length 0 (null) or 1.
None == <<>>

Some(x) == <<x>>

IsSome(o) == Len(o) > 0

\* a ?? b
OrElse(a, b) == IF IsSome(a) THEN a ELSE b

\* The first element of a sequence, or null: with SelectSeq (Array.filter),
\* Array.prototype.find or a for-loop returning on its first hit.
FirstOf(s) == IF Len(s) > 0 THEN Some(s[1]) ELSE None

RECURSIVE FlattenSeq(_)
\* The concatenation of a sequence of sequences.
FlattenSeq(ss) == IF Len(ss) = 0 THEN <<>> ELSE Head(ss) \o FlattenSeq(Tail(ss))

\* Array.prototype.sort with a comparator; greater holds the pairs <<i, j>>
\* of positions with compare(s[i], s[j]) > 0.  The sort is stable: elements
\* that compare equal keep their order.
StableSort(s, greater) ==
    LET Before(i) == {j \in 1..Len(s) :
                        <<i, j>> \in greater \/ (<<j, i>> \notin greater /\ j < i)}
    IN  [k \in 1..Len(s) |-> s[CHOOSE i \in 1..Len(s) : Cardinality(Before(i)) = k - 1]]

\* JavaScript's remainder: the sign of the result follows the dividend.
JsRem(a, n) == IF a >= 0 THEN a % n ELSE -((-a) % n)

RECURSIVE ISqrtRange(_, _, _)
\* Largest r in lo..hi with r * r <= n, by bisection.
ISqrtRange(n, lo, hi) ==
    IF lo >= hi THEN lo
    ELSE LET mid == (lo + hi + 1) \div 2
         IN  IF mid * mid <= n THEN ISqrtRange(n, mid, hi)
             ELSE ISqrtRange(n, lo, mid - 1)

\* Math.sqrt, rounded down.
ISqrt(n) == IF n <= 0 THEN 0 ELSE ISqrtRange(n, 0, n)

-----------------------------------------------------------------------------
(* Geometry primitives (turf, modelled on the plane)                       *)

\* 1000 * tan(k degrees) for k = 1..89.
TanMilli ==
    <<17, 35, 52, 70, 87, 105, 123, 141, 158, 176, 194, 213, 231, 249, 268,
      287, 306, 325, 344, 364, 384, 404, 424, 445, 466, 488, 510, 532, 554,
      577, 601, 625, 649, 675, 700, 727, 754, 781, 810, 839, 869, 900, 933,
      966, 1000, 1036, 1072, 1111, 1150, 1192, 1235, 1280, 1327, 1376, 1428,
      1483, 1540, 1600, 1664, 1732, 1804, 1881, 1963, 2050, 2145, 2246, 2356,
      2475, 2605, 2747, 2904, 3078, 3271, 3487, 3732, 4011, 4331, 4705, 5145,
      5671, 6314, 7115, 8144, 9514, 11430, 14301, 19081, 28636, 57290>>

\* atan(opp / adj) in whole degrees (rounded down), for opp, adj >= 0.
AtanDeg(opp, adj) ==
    IF adj = 0 THEN (IF opp = 0 THEN 0 ELSE 90)
    ELSE Cardinality({k \in 1..89 : TanMilli[k] * adj <= 1000 * opp})

\* turf distance(point(a), point(b), {units: 'meters'}).
distance(a, b) ==
    ISqrt((a[1] - b[1]) * (a[1] - b[1]) + (a[2] - b[2]) * (a[2] - b[2]))

\* turf bearing(point(start), point(end)): degrees clockwise from north,
\* in -180..180.
bearing(start, end) ==
    LET dx == end[1] - start[1]
        dy == end[2] - start[2]
    IN  CASE dx = 0 /\ dy = 0 -> 0
          [] dx >= 0 /\ dy > 0 -> AtanDeg(dx, dy)
          [] dx > 0 /\ dy <= 0 -> 90 + AtanDeg(-dy, dx)
          [] dx < 0 /\ dy >= 0 -> -(90 - AtanDeg(dy, -dx))
          [] dx <= 0 /\ dy < 0 -> IF dx = 0 THEN 180 ELSE -(90 + AtanDeg(-dy, -dx))

\* turf pointToLineDistance(point(p), lineString([a, b]), {units: 'meters'}).
pointToLineDistance(p, a, b) ==
    LET len2 == (b[1] - a[1]) * (b[1] - a[1]) + (b[2] - a[2]) * (b[2] - a[2])
        dot  == (p[1] - a[1]) * (b[1] - a[1]) + (p[2] - a[2]) * (b[2] - a[2])
        ap2  == (p[1] - a[1]) * (p[1] - a[1]) + (p[2] - a[2]) * (p[2] - a[2])
    IN  IF len2 = 0 \/ dot <= 0 THEN distance(p, a)
        ELSE IF dot >= len2 THEN distance(p, b)
        ELSE ISqrt((ap2 * len2 - dot * dot) \div len2)

RECURSIVE ShoelaceSum(_, _)
ShoelaceSum(ring, i) ==
    IF i >= Len(ring) THEN 0
    ELSE ring[i][1] * ring[i + 1][2] - ring[i + 1][1] * ring[i][2]
         + ShoelaceSum(ring, i + 1)

RingArea(ring) == Abs(ShoelaceSum(ring, 1)) \div 2

RECURSIVE HolesArea(_, _)
HolesArea(coords, i) ==
    IF i > Len(coords) THEN 0 ELSE RingArea(coords[i]) + HolesArea(coords, i + 1)

\* turf area(polygon): the outer ring's area less the holes'.
area(coords) ==
    IF Len(coords) = 0 THEN 0 ELSE Abs(RingArea(coords[1]) - HolesArea(coords, 2))

bearingDegrees(start, end) == bearing(start, end)

\* parallelOrientationDiffDeg without the normalisation of the two bearings
\* to 0..360.
parallelOrientationDiffDeg_unnormalised(a, b) ==
    LET rawDiff == Abs(a - b)
        wrappedDiff == IF rawDiff > 180 THEN 360 - rawDiff ELSE rawDiff
    IN  IF wrappedDiff > 90 THEN 180 - wrappedDiff ELSE wrappedDiff

parallelOrientationDiffDeg(a, b) ==
    LET aNorm == JsRem(JsRem(a, 360) + 360, 360)
        bNorm == JsRem(JsRem(b, 360) + 360, 360)
        rawDiff == Abs(aNorm - bNorm)
        wrappedDiff == IF rawDiff > 180 THEN 360 - rawDiff ELSE rawDiff
    IN  IF wrappedDiff > 90 THEN 180 - wrappedDiff ELSE wrappedDiff

-----------------------------------------------------------------------------
(* Texts: a text is a sequence of words                                    *)

\* String.prototype.toLowerCase on one word.
toLowerCase(w) ==
    CASE w \in {"MAIN", "Main"} -> "main"
      [] w \in {"OAK", "Oak"} -> "oak"
      [] w \in {"ST", "St"} -> "st"
      [] w \in {"ST.", "St."} -> "st."
      [] w \in {"AVE", "Ave"} -> "ave"
      [] w = "Street" -> "street"
      [] w = "Avenue" -> "avenue"
      [] w = "Rear" -> "rear"
      [] w \in {"LANE", "Lane"} -> "lane"
      [] w = "Ln" -> "ln"
      [] w = "Bike" -> "bike"
      [] OTHER -> w

\* .replace(/[.,]/g, ' ') on one lower-case word (the blank is trimmed away).
StripPunctuation(w) ==
    CASE w = "st." -> "st"
      [] w = "ave." -> "ave"
      [] w \in {".", ","} -> ""
      [] OTHER -> w

\* The \bst\b ... \bw\b replacements on one word.
ExpandAbbreviation(w) ==
    CASE w = "st" -> "street"
      [] w = "ave" -> "avenue"
      [] w = "blvd" -> "boulevard"
      [] w = "rd" -> "road"
      [] w = "dr" -> "drive"
      [] w = "ln" -> "lane"
      [] w = "n" -> "north"
      [] w = "s" -> "south"
      [] w = "e" -> "east"
      [] w = "w" -> "west"
      [] OTHER -> w

NormalizeWord(w) == ExpandAbbreviation(StripPunctuation(toLowerCase(w)))

NonEmptyWord(w) == w # ""

normalizeStreetName(value) ==
    SelectSeq([i \in 1..Len(value) |-> NormalizeWord(value[i])], NonEmptyWord)

\* /^\d+[a-zA-Z]?$/ on one word.
IsCivicNumber(w) == w \in {"123", "55", "12A"}

extractPrimaryStreet(address, fallbackStreetName) ==
    LET parts == SelectSeq(address, NonEmptyWord)
    IN  IF Len(parts) = 0 THEN fallbackStreetName
        ELSE IF Len(parts) < 2
             THEN (IF Len(fallbackStreetName) > 0 THEN fallbackStreetName ELSE parts)
        ELSE IF IsCivicNumber(parts[1]) THEN SubSeq(parts, 2, Len(parts))
        ELSE IF Len(fallbackStreetName) > 0 THEN fallbackStreetName ELSE parts

suffixRoadKindFromName(name) ==
    LET normalized == normalizeStreetName(name)
    IN  IF Len(normalized) = 0 THEN Null
        ELSE IF Len(normalized) >= 2 /\ normalized[Len(normalized)] = "lane" THEN "lane"
        ELSE IF Len(normalized) >= 2 /\ normalized[Len(normalized)] = "street" THEN "street"
        ELSE Null

\* `${name} ${className} ${sourceLayer}`.toLowerCase()
JoinedLower(name, className, sourceLayer) ==
    LET words == name \o <<className, sourceLayer>>
    IN  [i \in 1..Len(words) |-> toLowerCase(words[i])]

\* Lower-case words in which the bike/pedestrian expression finds a match.
BikeOrPedestrianWords ==
    {"cycleway", "bikeway", "bike_lane", "bike-lane", "bikelane", "greenway",
     "shared_use", "multi_use", "footway", "sidewalk", "pedestrian", "crossing",
     "steps", "path"}

isBikeOrPedestrianWay(name, className, sourceLayer) ==
    LET joined == JoinedLower(name, className, sourceLayer)
    IN  \/ \E i \in 1..Len(joined) : joined[i] \in BikeOrPedestrianWords
        \/ \E i \in 1..(Len(joined) - 1) : joined[i] = "bike" /\ joined[i + 1] = "lane"

-----------------------------------------------------------------------------
(* Edge extractor                                                          *)

\* The EdgeAnalysis pushed for the ring's 0-based index.
\* NewEdge with the end taken at the edge's own index: every edge collapses
\* onto its start position.
NewEdge_endAtIndex(ring, index) ==
    LET start == ring[index + 1]
    IN  [index |-> index,
         start |-> start,
         end |-> start,
         midpoint |-> start,
         lengthMeters |-> 0,
         type |-> "Side",
         roadKind |-> Null,
         roadName |-> <<>>,
         roadClass |-> "",
         roadDistanceMeters |-> NoNumber,
         orientationDiffDeg |-> NoNumber,
         isRoadAdjacent |-> FALSE,
         debug |-> [text |-> "No road candidate found.", kind |-> Null, name |-> <<>>,
                    distance |-> NoNumber, orientation |-> NoNumber, suffix |-> ""]]

NewEdge(ring, index) ==
    LET start == ring[index + 1]
        end   == ring[index + 2]
    IN  [index |-> index,
         start |-> start,
         end |-> end,
         midpoint |-> <<(start[1] + end[1]) \div 2, (start[2] + end[2]) \div 2>>,
         lengthMeters |-> distance(start, end),
         type |-> "Side",
         roadKind |-> Null,
         roadName |-> <<>>,
         roadClass |-> "",
         roadDistanceMeters |-> NoNumber,
         orientationDiffDeg |-> NoNumber,
         isRoadAdjacent |-> FALSE,
         debug |-> [text |-> "No road candidate found.", kind |-> Null, name |-> <<>>,
                    distance |-> NoNumber, orientation |-> NoNumber, suffix |-> ""]]

\* A ring entry that holds no position (null or undefined) is the empty tuple.
NullPosition == <<>>

IsPosition(p) == Len(p) >= 2

\* The loop of toRingEdges over index = 0 .. lastIndex - 1: an index whose
\* start or end is missing is skipped.
EdgesUpTo(ring, lastIndex) ==
    LET Present(index) == IsPosition(ring[index + 1]) /\ IsPosition(ring[index + 2])
        indexes == SelectSeq([i \in 1..lastIndex |-> i - 1], Present)
    IN  [k \in 1..Len(indexes) |-> NewEdge(ring, indexes[k])]

\* toRingEdges that closes the ring itself: one edge per position, the last
\* one back to the first position.
toRingEdges_closing(ring) ==
    IF Len(ring) = 0 THEN <<>> ELSE EdgesUpTo(ring \o <<ring[1]>>, Len(ring))

toRingEdges(ring) ==
    IF Len(ring) < 2 THEN <<>> ELSE EdgesUpTo(ring, Len(ring) - 1)

-----------------------------------------------------------------------------
(* Road candidate finder                                                   *)

ROAD_PROXIMITY_THRESHOLD_METERS == 20
LANE_PROXIMITY_THRESHOLD_METERS == 28
ROAD_ORIENTATION_THRESHOLD_DEG == 55
LANE_ORIENTATION_THRESHOLD_DEG == 85
RELAXED_FRONTAGE_STREET_DISTANCE_METERS == 30
RELAXED_FRONTAGE_STREET_ORIENTATION_DEG == 85
RELAXED_FLANKAGE_STREET_DISTANCE_METERS == 24
RELAXED_FLANKAGE_STREET_ORIENTATION_DEG == 70
RELAXED_LANE_DISTANCE_METERS == 42
RELAXED_LANE_ORIENTATION_DEG == 110
OPPOSITE_EDGE_STRICT_ORIENTATION_DEG == 38
OPPOSITE_EDGE_RELAXED_ORIENTATION_DEG == 62
EDGE_SELECTION_DISTANCE_TIE_METERS == 3
EDGE_SELECTION_LENGTH_TIE_METERS == 1

isLineGeometry(geometry) == geometry.type \in {"LineString", "MultiLineString"}

LongEnough(line) == Len(line) >= 2

extractLineCollections(geometry) ==
    CASE geometry.type = "LineString" ->
            IF Len(geometry.coordinates) >= 2 THEN <<geometry.coordinates>> ELSE <<>>
      [] geometry.type = "MultiLineString" -> SelectSeq(geometry.coordinates, LongEnough)
      [] OTHER -> <<>>

\* Lower-case words in which the road-like expression finds a match.
RoadLikeWords ==
    {"road", "street", "motorway", "residential", "service", "highway", "primary",
     "secondary", "tertiary", "trunk", "avenue", "boulevard", "lane", "alley",
     "bike_lane", "bike-lane", "bikelane", "service_road"}

ExplicitLaneWords == {"lane", "alley", "alleyway"}

ExplicitStreetWords ==
    {"street", "avenue", "road", "drive", "boulevard", "highway", "parkway", "way",
     "place", "court", "crescent", "trail", "terrace", "connector"}

\* Lower-case words in which /(lane|alley|driveway|access)/ finds a match.
LaneLikeClassWords ==
    {"lane", "alley", "alleyway", "driveway", "access", "bike_lane", "bike-lane",
     "bikelane"}

AnyWordIn(text, words) == \E i \in 1..Len(text) : text[i] \in words

\* The RoadCandidate of a rendered feature, or null.
toRoadCandidate(feature) ==
    IF ~isLineGeometry(feature.geometry) THEN None
    ELSE
    LET name == feature.properties.name
        className == feature.properties.class
        sourceLayer == feature.sourceLayer
        joined == JoinedLower(name, className, sourceLayer)
        classJoined == <<toLowerCase(className), toLowerCase(sourceLayer)>>
        looksRoadLike == AnyWordIn(joined, RoadLikeWords)
        lines == extractLineCollections(feature.geometry)
        suffixKind == suffixRoadKindFromName(name)
        normalizedName == normalizeStreetName(name)
        explicitLaneName == AnyWordIn(normalizedName, ExplicitLaneWords)
        explicitStreetName == AnyWordIn(normalizedName, ExplicitStreetWords)
        laneLikeClass == AnyWordIn(classJoined, LaneLikeClassWords)
        serviceClass == AnyWordIn(classJoined, {"service"})
        laneLike == explicitLaneName \/ laneLikeClass \/ (serviceClass /\ ~explicitStreetName)
        kind == IF suffixKind = "lane" THEN "lane"
                ELSE IF suffixKind = "street" THEN "street"
                ELSE IF laneLike THEN "lane" ELSE "street"
    IN  IF ~looksRoadLike THEN None
        ELSE IF isBikeOrPedestrianWay(name, className, sourceLayer) THEN None
        ELSE IF Len(lines) = 0 THEN None
        ELSE Some([name |-> name, kind |-> kind, className |-> className,
                   sourceLayer |-> sourceLayer, lines |-> lines])

\* The key without the lower-casing of its texts.
CandidateKey_caseSensitive(candidate) ==
    <<candidate.name, candidate.className, candidate.kind, candidate.sourceLayer,
      Len(candidate.lines)>>

CandidateKey(candidate) ==
    <<[i \in 1..Len(candidate.name) |-> toLowerCase(candidate.name[i])],
      toLowerCase(candidate.className),
      candidate.kind, toLowerCase(candidate.sourceLayer), Len(candidate.lines)>>

RECURSIVE UniqueFrom(_, _, _)
UniqueFrom(candidates, seen, output) ==
    IF Len(candidates) = 0 THEN output
    ELSE LET candidate == Head(candidates)
             key == CandidateKey(candidate)
         IN  IF key \in seen THEN UniqueFrom(Tail(candidates), seen, output)
             ELSE UniqueFrom(Tail(candidates), seen \cup {key}, Append(output, candidate))

uniqueCandidates(candidates) == UniqueFrom(candidates, {}, <<>>)

-----------------------------------------------------------------------------
(* Candidate evaluator                                                     *)

\* The consecutive point pairs of every line of a candidate, in loop order.
SegmentsOf(lines) ==
    FlattenSeq([l \in 1..Len(lines) |->
                  [i \in 1..(Len(lines[l]) - 1) |-> <<lines[l][i], lines[l][i + 1]>>]])

\* The score without the orientation term.
Score100_distanceOnly(d, o) == 100 * d

\* distance + orientationDiff * 0.45, times 100.
Score100(d, o) == 100 * d + 45 * o

RECURSIVE BestSegment(_, _, _)
\* The loop over segments: best is [found, distance, orientation].
BestSegment(edge, segments, best) ==
    IF Len(segments) = 0 THEN best
    ELSE LET segmentStart == Head(segments)[1]
             segmentEnd == Head(segments)[2]
             segmentDistance == pointToLineDistance(edge.midpoint, segmentStart, segmentEnd)
             segmentBearing == bearingDegrees(segmentStart, segmentEnd)
             orientationDiff ==
                 parallelOrientationDiffDeg(bearingDegrees(edge.start, edge.end),
                                            segmentBearing)
             score == Score100(segmentDistance, orientationDiff)
             better == ~best.found \/ score < Score100(best.distance, best.orientation)
         IN  BestSegment(edge, Tail(segments),
                 IF better
                 THEN [found |-> TRUE, distance |-> segmentDistance,
                       orientation |-> orientationDiff]
                 ELSE best)

\* The part of evaluateRoadCandidateForEdge after the loop over segments.
EvaluatedCandidate(candidate, best) ==
    LET distanceThreshold == IF candidate.kind = "lane"
                             THEN LANE_PROXIMITY_THRESHOLD_METERS
                             ELSE ROAD_PROXIMITY_THRESHOLD_METERS
        orientationThreshold == IF candidate.kind = "lane"
                                THEN LANE_ORIENTATION_THRESHOLD_DEG
                                ELSE ROAD_ORIENTATION_THRESHOLD_DEG
    IN  IF ~best.found THEN None
        ELSE Some([name |-> candidate.name,
                   kind |-> candidate.kind,
                   className |-> candidate.className,
                   sourceLayer |-> candidate.sourceLayer,
                   lines |-> candidate.lines,
                   distanceMeters |-> best.distance,
                   orientationDiffDeg |-> best.orientation,
                   score |-> Score100(best.distance, best.orientation),
                   isAdjacent |-> best.distance <= distanceThreshold
                                  /\ best.orientation <= orientationThreshold])

evaluateRoadCandidateForEdge(edge, candidate) ==
    EvaluatedCandidate(candidate,
                       BestSegment(edge, SegmentsOf(candidate.lines),
                                   [found |-> FALSE, distance |-> 0, orientation |-> 0]))

\* map.queryRenderedFeatures around the edge: the provider's answer for it.
queryRenderedFeatures(provider, edge) == provider.rendered[edge.index]

queryRoadCandidatesForEdge(provider, edge) ==
    LET features == queryRenderedFeatures(provider, edge)
    IN  uniqueCandidates(FlattenSeq([i \in 1..Len(features) |->
                                        toRoadCandidate(features[i])]))

\* The comparator of evaluated.sort, as "a sorts after b".
EvaluatedGreater(a, b) ==
    IF a.score # b.score THEN a.score > b.score
    ELSE a.distanceMeters > b.distanceMeters

\* candidates.map(evaluateRoadCandidateForEdge).filter(not null)
EvaluateAll(edge, candidates) ==
    FlattenSeq([i \in 1..Len(candidates) |->
                  evaluateRoadCandidateForEdge(edge, candidates[i])])

\* evaluated.sort(by score, then by distance)
SortEvaluated(evaluated) ==
    StableSort(evaluated,
               {pair \in (1..Len(evaluated)) \X (1..Len(evaluated)) :
                   EvaluatedGreater(evaluated[pair[1]], evaluated[pair[2]])})

findEvaluatedRoadCandidatesForEdge(provider, edge) ==
    SortEvaluated(EvaluateAll(edge, queryRoadCandidatesForEdge(provider, edge)))

DebugOf(match) ==
    IF match.isAdjacent
    THEN [text |-> "Adjacent to", kind |-> match.kind, name |-> match.name,
          distance |-> match.distanceMeters, orientation |-> match.orientationDiffDeg,
          suffix |-> ""]
    ELSE [text |-> "Nearest road (not adjacent threshold)", kind |-> Null,
          name |-> match.name, distance |-> match.distanceMeters,
          orientation |-> NoNumber, suffix |-> ""]

\* applyMatchToEdge that writes the kind of the match whether or not the
\* match is adjacent.
applyMatchToEdge_kindAlways(edge, match) ==
    [edge EXCEPT !.roadName = match.name,
                 !.roadClass = match.className,
                 !.roadDistanceMeters = match.distanceMeters,
                 !.orientationDiffDeg = match.orientationDiffDeg,
                 !.isRoadAdjacent = match.isAdjacent,
                 !.roadKind = match.kind,
                 !.debug = DebugOf(match)]

applyMatchToEdge(edge, match) ==
    [edge EXCEPT !.roadName = match.name,
                 !.roadClass = match.className,
                 !.roadDistanceMeters = match.distanceMeters,
                 !.orientationDiffDeg = match.orientationDiffDeg,
                 !.isRoadAdjacent = match.isAdjacent,
                 !.roadKind = IF match.isAdjacent THEN match.kind ELSE Null,
                 !.debug = DebugOf(match)]

\* isRelaxedStreetCandidateForMode with the frontage thresholds in every mode.
isRelaxedStreetCandidateForMode_oneMode(candidate, mode) ==
    IF candidate.kind # "street" THEN FALSE
    ELSE candidate.distanceMeters <= RELAXED_FRONTAGE_STREET_DISTANCE_METERS
         /\ candidate.orientationDiffDeg <= RELAXED_FRONTAGE_STREET_ORIENTATION_DEG

isRelaxedStreetCandidateForMode(candidate, mode) ==
    IF candidate.kind # "street" THEN FALSE
    ELSE IF mode = "frontage"
         THEN candidate.distanceMeters <= RELAXED_FRONTAGE_STREET_DISTANCE_METERS
              /\ candidate.orientationDiffDeg <= RELAXED_FRONTAGE_STREET_ORIENTATION_DEG
    ELSE candidate.distanceMeters <= RELAXED_FLANKAGE_STREET_DISTANCE_METERS
         /\ candidate.orientationDiffDeg <= RELAXED_FLANKAGE_STREET_ORIENTATION_DEG

isRelaxedLaneCandidate(candidate) ==
    IF candidate.kind # "lane" THEN FALSE
    ELSE candidate.distanceMeters <= RELAXED_LANE_DISTANCE_METERS
         /\ candidate.orientationDiffDeg <= RELAXED_LANE_ORIENTATION_DEG

firstAdjacentStreet(candidates, allowRelaxed, relaxMode) ==
    LET Hit(candidate) ==
            /\ candidate.kind = "street"
            /\ \/ candidate.isAdjacent
               \/ allowRelaxed /\ isRelaxedStreetCandidateForMode(candidate, relaxMode)
    IN  FirstOf(SelectSeq(candidates, Hit))

firstAdjacentLane(candidates, allowRelaxed) ==
    LET Hit(candidate) ==
            /\ candidate.kind = "lane"
            /\ \/ candidate.isAdjacent
               \/ allowRelaxed /\ isRelaxedLaneCandidate(candidate)
    IN  FirstOf(SelectSeq(candidates, Hit))

firstAdjacentStreetByName(candidates, normalizedStreet, allowRelaxed, relaxMode) ==
    LET Hit(candidate) ==
            /\ candidate.kind = "street"
            /\ normalizeStreetName(candidate.name) = normalizedStreet
            /\ \/ candidate.isAdjacent
               \/ allowRelaxed /\ isRelaxedStreetCandidateForMode(candidate, relaxMode)
    IN  IF Len(normalizedStreet) = 0 THEN None ELSE FirstOf(SelectSeq(candidates, Hit))

firstDifferentStreetCandidate(candidates, normalizedBaseStreet, allowRelaxed) ==
    LET Hit(candidate) ==
            /\ candidate.kind = "street"
            /\ Len(normalizeStreetName(candidate.name)) > 0
            /\ ~(Len(normalizedBaseStreet) > 0
                 /\ normalizeStreetName(candidate.name) = normalizedBaseStreet)
            /\ \/ candidate.isAdjacent
               \/ allowRelaxed /\ isRelaxedStreetCandidateForMode(candidate, "flankage")
    IN  FirstOf(SelectSeq(candidates, Hit))

-----------------------------------------------------------------------------
(* Classifier helpers                                                      *)

\* edges[position] for a 0-based array position, or null when out of range.
EdgeAt(edges, position) ==
    IF position >= 0 /\ position < Len(edges) THEN Some(edges[position + 1]) ELSE None

\* edgeMatches.get(index) ?? []
MatchesOf(edgeMatches, index) ==
    IF index \in DOMAIN edgeMatches THEN edgeMatches[index] ELSE <<>>

\* The OppositeCandidate records pushed by the first loop of
\* findOppositeEdgeIndex.
OppositeCandidates(edges, frontage, frontageIndex) ==
    LET frontageBearing == bearingDegrees(frontage.start, frontage.end)
        NotFrontage(edge) == edge.index # frontageIndex
        Candidate(edge) ==
            LET perp == pointToLineDistance(edge.midpoint, frontage.start, frontage.end)
                mid  == distance(frontage.midpoint, edge.midpoint)
            IN  [index |-> edge.index,
                 orientationDiffDeg |->
                     parallelOrientationDiffDeg(frontageBearing,
                                                bearingDegrees(edge.start, edge.end)),
                 perpendicularDistanceMeters |-> perp,
                 midpointDistanceMeters |-> mid,
                 score |-> 10 * perp + 2 * mid]
        others == SelectSeq(edges, NotFrontage)
    IN  [i \in 1..Len(others) |-> Candidate(others[i])]

\* The comparator of oriented.sort with the smallest score first.
OppositeGreater_ascending(a, b) ==
    IF a.score # b.score THEN a.score > b.score
    ELSE IF a.perpendicularDistanceMeters # b.perpendicularDistanceMeters
         THEN a.perpendicularDistanceMeters > b.perpendicularDistanceMeters
    ELSE a.midpointDistanceMeters > b.midpointDistanceMeters

\* The comparator of oriented.sort, as "a sorts after b".
OppositeGreater(a, b) ==
    IF a.score # b.score THEN b.score > a.score
    ELSE IF a.perpendicularDistanceMeters # b.perpendicularDistanceMeters
         THEN b.perpendicularDistanceMeters > a.perpendicularDistanceMeters
    ELSE b.midpointDistanceMeters > a.midpointDistanceMeters

chooseBestOppositeWithinOrientation(candidates, maxOrientationDiffDeg) ==
    LET Within(candidate) == candidate.orientationDiffDeg <= maxOrientationDiffDeg
        within == SelectSeq(candidates, Within)
        positions == 1..Len(within)
        oriented == StableSort(within,
                               {pair \in positions \X positions :
                                   OppositeGreater(within[pair[1]], within[pair[2]])})
    IN  IF Len(oriented) = 0 THEN -1 ELSE oriented[1].index

RECURSIVE FarthestEdge(_, _, _, _, _)
\* The last loop of findOppositeEdgeIndex.
FarthestEdge(edges, frontage, frontageIndex, bestIndex, farthestDistance) ==
    IF Len(edges) = 0 THEN bestIndex
    ELSE LET edge == Head(edges)
             d == distance(frontage.midpoint, edge.midpoint)
         IN  IF edge.index # frontageIndex /\ d > farthestDistance
             THEN FarthestEdge(Tail(edges), frontage, frontageIndex, edge.index, d)
             ELSE FarthestEdge(Tail(edges), frontage, frontageIndex, bestIndex,
                               farthestDistance)

findOppositeEdgeIndex(edges, frontageIndex) ==
    LET frontageAt == EdgeAt(edges, frontageIndex)
    IN  IF ~IsSome(frontageAt) THEN -1
        ELSE
        LET frontage == frontageAt[1]
            candidates == OppositeCandidates(edges, frontage, frontageIndex)
            strictOpposite ==
                chooseBestOppositeWithinOrientation(candidates,
                                                    OPPOSITE_EDGE_STRICT_ORIENTATION_DEG)
            relaxedOpposite ==
                chooseBestOppositeWithinOrientation(candidates,
                                                    OPPOSITE_EDGE_RELAXED_ORIENTATION_DEG)
        IN  IF strictOpposite >= 0 THEN strictOpposite
            ELSE IF relaxedOpposite >= 0 THEN relaxedOpposite
            ELSE FarthestEdge(edges, frontage, frontageIndex, -1, -1)

\* The street candidate selectNearestEdgeByStreetCandidate looks up for an edge.
SelectionCandidate(edge, edgeMatches, normalizedStreet, allowRelaxed, relaxMode) ==
    IF Len(normalizedStreet) > 0
    THEN firstAdjacentStreetByName(MatchesOf(edgeMatches, edge.index), normalizedStreet,
                                   allowRelaxed, relaxMode)
    ELSE firstAdjacentStreet(MatchesOf(edgeMatches, edge.index), allowRelaxed, relaxMode)

RECURSIVE SelectLoop(_, _, _, _, _, _, _)
\* The loop of selectNearestEdgeByStreetCandidate; bestEdge and bestCandidate
\* are null or hold the running choice.
SelectLoop(edges, edgeMatches, normalizedStreet, allowRelaxed, relaxMode, bestEdge, bestCandidate) ==
    IF Len(edges) = 0 THEN bestEdge
    ELSE
    LET edge == Head(edges)
        found == SelectionCandidate(edge, edgeMatches, normalizedStreet, allowRelaxed,
                                    relaxMode)
        Continue(e, c) == SelectLoop(Tail(edges), edgeMatches, normalizedStreet,
                                     allowRelaxed, relaxMode, e, c)
    IN  IF ~IsSome(found) THEN Continue(bestEdge, bestCandidate)
        ELSE IF ~IsSome(bestEdge) \/ ~IsSome(bestCandidate) THEN Continue(Some(edge), found)
        ELSE
        LET candidate == found[1]
            distanceDelta == candidate.distanceMeters - bestCandidate[1].distanceMeters
            lengthDelta == edge.lengthMeters - bestEdge[1].lengthMeters
        IN  IF distanceDelta < -EDGE_SELECTION_DISTANCE_TIE_METERS
            THEN Continue(Some(edge), found)
            ELSE IF distanceDelta > EDGE_SELECTION_DISTANCE_TIE_METERS
            THEN Continue(bestEdge, bestCandidate)
            ELSE IF lengthDelta > EDGE_SELECTION_LENGTH_TIE_METERS
            THEN Continue(Some(edge), found)
            ELSE IF lengthDelta < -EDGE_SELECTION_LENGTH_TIE_METERS
            THEN Continue(bestEdge, bestCandidate)
            ELSE IF candidate.orientationDiffDeg < bestCandidate[1].orientationDiffDeg
            THEN Continue(Some(edge), found)
            ELSE Continue(bestEdge, bestCandidate)

\* Returns the selected edge, or null.
selectNearestEdgeByStreetCandidate(edges, edgeMatches, normalizedStreet, allowRelaxed, relaxMode) ==
    SelectLoop(edges, edgeMatches, normalizedStreet, allowRelaxed, relaxMode, None, None)

\* determineLotType with the lane rule tried before the flankage rule.
determineLotType_laneFirst(hasFlankage, isDoubleFronting, oppositeEdge) ==
    IF IsSome(oppositeEdge) /\ oppositeEdge[1].isRoadAdjacent
       /\ oppositeEdge[1].roadKind = "lane"
    THEN [lotType |-> "Standard with Lane",
          reason |-> <<"Frontage present and opposite edge is adjacent to a lane/alley.">>]
    ELSE IF hasFlankage
    THEN [lotType |-> "Corner Lot",
          reason |-> <<"Has frontage and at least one flankage edge on a different street.">>]
    ELSE IF isDoubleFronting
    THEN [lotType |-> "Double Fronting",
          reason |-> <<"Frontage and opposite edge both face different streets (not lanes).">>]
    ELSE [lotType |-> "Standard without Lane",
          reason |-> <<"Frontage present and opposite side is not adjacent to a lane.">>]

\* oppositeEdge is null or holds the opposite edge.
determineLotType(hasFlankage, isDoubleFronting, oppositeEdge) ==
    IF hasFlankage
    THEN [lotType |-> "Corner Lot",
          reason |-> <<"Has frontage and at least one flankage edge on a different street.">>]
    ELSE IF isDoubleFronting
    THEN [lotType |-> "Double Fronting",
          reason |-> <<"Frontage and opposite edge both face different streets (not lanes).">>]
    ELSE IF IsSome(oppositeEdge) /\ oppositeEdge[1].isRoadAdjacent
            /\ oppositeEdge[1].roadKind = "lane"
    THEN [lotType |-> "Standard with Lane",
          reason |-> <<"Frontage present and opposite edge is adjacent to a lane/alley.">>]
    ELSE [lotType |-> "Standard without Lane",
          reason |-> <<"Frontage present and opposite side is not adjacent to a lane.">>]

-----------------------------------------------------------------------------
(* analyzeParcel                                                           *)

\* The edge list with the edge at a 1-based array position replaced.
WithEdge(edges, position, edge) == [edges EXCEPT ![position] = edge]

\* The 1-based array position of the edge object carrying an index.
PositionOf(edges, index) == CHOOSE i \in 1..Len(edges) : edges[i].index = index

\* edgeMatches after the default pass: one entry per edge when a map is
\* given, none otherwise.
EdgeMatchesFor(edges, provider) ==
    IF ~IsSome(provider) THEN [i \in {} |-> <<>>]
    ELSE [index \in {edges[i].index : i \in 1..Len(edges)} |->
            findEvaluatedRoadCandidatesForEdge(provider[1],
                                               edges[PositionOf(edges, index)])]

IsAdjacentMatch(candidate) == candidate.isAdjacent

\* The body of the default pass for one edge.
DefaultStamp(edge, matches) ==
    LET defaultMatch ==
            OrElse(firstAdjacentStreet(matches, FALSE, "frontage"),
                   OrElse(FirstOf(SelectSeq(matches, IsAdjacentMatch)),
                          IF Len(matches) > 0 THEN Some(matches[1]) ELSE None))
    IN  IF ~IsSome(defaultMatch)
        THEN [edge EXCEPT !.debug.text = "No road candidate found near edge centerline."]
        ELSE applyMatchToEdge(edge, defaultMatch[1])

DefaultPass(edges, edgeMatches, provider) ==
    IF ~IsSome(provider) THEN edges
    ELSE [i \in 1..Len(edges) |->
            DefaultStamp(edges[i], MatchesOf(edgeMatches, edges[i].index))]

RECURSIVE LongestEdge_lastOfTies(_, _)
\* LongestEdge with >= for >: the last of the longest edges wins.
LongestEdge_lastOfTies(edges, best) ==
    IF Len(edges) = 0 THEN best
    ELSE LongestEdge_lastOfTies(Tail(edges),
                                IF Head(edges).lengthMeters >= best.lengthMeters
                                THEN Head(edges) ELSE best)

RECURSIVE LongestEdge(_, _)
\* edges.reduce((best, current) => current longer than best ? current : best)
LongestEdge(edges, best) ==
    IF Len(edges) = 0 THEN best
    ELSE LongestEdge(Tail(edges),
                     IF Head(edges).lengthMeters > best.lengthMeters
                     THEN Head(edges) ELSE best)

\* candidateStreetEdges: the edges with a strict street match, or failing
\* any, those with a relaxed one.
CandidateStreetEdges(edges, edgeMatches) ==
    LET HasStrictStreet(edge) ==
            IsSome(firstAdjacentStreet(MatchesOf(edgeMatches, edge.index), FALSE, "frontage"))
        HasRelaxedStreet(edge) ==
            IsSome(firstAdjacentStreet(MatchesOf(edgeMatches, edge.index), TRUE, "frontage"))
    IN  IF Len(SelectSeq(edges, HasStrictStreet)) > 0
        THEN SelectSeq(edges, HasStrictStreet)
        ELSE SelectSeq(edges, HasRelaxedStreet)

\* The chain of fallbacks with any strict street tried before the primary
\* street name.
FrontageChoice_anyStreetFirst(byNameStrict, byNameRelaxed, anyStrict, anyRelaxed, longest, candidateStreetEdges) ==
    [frontageEdge |-> OrElse(anyStrict,
                             OrElse(byNameStrict,
                                    OrElse(byNameRelaxed, OrElse(anyRelaxed, longest)))),
     frontageMatchedByPrimaryStreet |-> IsSome(byNameStrict) \/ IsSome(byNameRelaxed),
     candidateStreetEdges |-> candidateStreetEdges,
     step |-> IF IsSome(anyStrict) THEN "any-strict"
              ELSE IF IsSome(byNameStrict) THEN "name-strict"
              ELSE IF IsSome(byNameRelaxed) THEN "name-relaxed"
              ELSE IF IsSome(anyRelaxed) THEN "any-relaxed"
              ELSE IF IsSome(longest) THEN "longest"
              ELSE "none"]

\* The chain of fallbacks that yields frontageEdge, given the outcome of
\* each attempt (null or the edge found).
FrontageChoice(byNameStrict, byNameRelaxed, anyStrict, anyRelaxed, longest, candidateStreetEdges) ==
    [frontageEdge |-> OrElse(byNameStrict,
                             OrElse(byNameRelaxed,
                                    OrElse(anyStrict, OrElse(anyRelaxed, longest)))),
     frontageMatchedByPrimaryStreet |-> IsSome(byNameStrict) \/ IsSome(byNameRelaxed),
     candidateStreetEdges |-> candidateStreetEdges,
     step |-> IF IsSome(byNameStrict) THEN "name-strict"
              ELSE IF IsSome(byNameRelaxed) THEN "name-relaxed"
              ELSE IF IsSome(anyStrict) THEN "any-strict"
              ELSE IF IsSome(anyRelaxed) THEN "any-relaxed"
              ELSE IF IsSome(longest) THEN "longest"
              ELSE "none"]

\* The attempts of the frontage selection, in the order they are tried.
FrontageAmong(edges, edgeMatches, normalizedPrimaryStreet, candidateStreetEdges) ==
    FrontageChoice(
        IF Len(normalizedPrimaryStreet) = 0 THEN None
        ELSE selectNearestEdgeByStreetCandidate(edges, edgeMatches,
                                                normalizedPrimaryStreet, FALSE, "frontage"),
        IF Len(normalizedPrimaryStreet) = 0 THEN None
        ELSE selectNearestEdgeByStreetCandidate(edges, edgeMatches,
                                                normalizedPrimaryStreet, TRUE, "frontage"),
        selectNearestEdgeByStreetCandidate(candidateStreetEdges, edgeMatches, <<>>,
                                           FALSE, "frontage"),
        selectNearestEdgeByStreetCandidate(candidateStreetEdges, edgeMatches, <<>>,
                                           TRUE, "frontage"),
        IF Len(edges) > 0 THEN Some(LongestEdge(Tail(edges), Head(edges))) ELSE None,
        candidateStreetEdges)

\* Frontage selection: the chosen edge (or null), whether the primary street
\* name matched, and candidateStreetEdges.
SelectFrontage(edges, edgeMatches, normalizedPrimaryStreet) ==
    FrontageAmong(edges, edgeMatches, normalizedPrimaryStreet,
                  CandidateStreetEdges(edges, edgeMatches))

\* Stamping the chosen frontage edge.
StampFrontage(edge, matches, normalizedPrimaryStreet) ==
    LET frontageStreetMatch ==
            OrElse(firstAdjacentStreetByName(matches, normalizedPrimaryStreet, TRUE,
                                             "frontage"),
                   firstAdjacentStreet(matches, TRUE, "frontage"))
        typed == [edge EXCEPT !.type = "Frontage"]
    IN  IF IsSome(frontageStreetMatch)
        THEN [applyMatchToEdge(typed, frontageStreetMatch[1])
                 EXCEPT !.isRoadAdjacent = TRUE, !.roadKind = "street"]
        ELSE typed

\* normalizeStreetName(frontageEdge?.roadName ?? '') || normalizedPrimaryStreet
ResolvedFrontageStreet(frontageEdge, normalizedPrimaryStreet) ==
    LET own == IF IsSome(frontageEdge) THEN normalizeStreetName(frontageEdge[1].roadName)
               ELSE <<>>
    IN  IF Len(own) > 0 THEN own ELSE normalizedPrimaryStreet

\* The double-fronting check without the comparison of the street names.
DoubleFrontingCandidate_anyStreet(frontageEdge, oppositeEdge, edgeMatches, frontageStreetNormalized) ==
    IF ~(IsSome(frontageEdge) /\ IsSome(oppositeEdge)
         /\ oppositeEdge[1].index \in DOMAIN edgeMatches)
    THEN None
    ELSE firstAdjacentStreet(MatchesOf(edgeMatches, oppositeEdge[1].index), TRUE, "frontage")

\* The double-fronting check: the street candidate that makes the opposite
\* edge a second frontage, or null.
DoubleFrontingCandidate(frontageEdge, oppositeEdge, edgeMatches, frontageStreetNormalized) ==
    IF ~(IsSome(frontageEdge) /\ IsSome(oppositeEdge)
         /\ oppositeEdge[1].index \in DOMAIN edgeMatches)
    THEN None
    ELSE LET oppositeStreetCandidate ==
                 firstAdjacentStreet(MatchesOf(edgeMatches, oppositeEdge[1].index), TRUE,
                                     "frontage")
             oppositeStreet == IF IsSome(oppositeStreetCandidate)
                               THEN normalizeStreetName(oppositeStreetCandidate[1].name)
                               ELSE <<>>
         IN  IF IsSome(oppositeStreetCandidate)
                /\ Len(oppositeStreet) > 0
                /\ Len(frontageStreetNormalized) > 0
                /\ oppositeStreet # frontageStreetNormalized
             THEN oppositeStreetCandidate
             ELSE None

StampStreet(edge, type, match) ==
    [applyMatchToEdge([edge EXCEPT !.type = type], match)
        EXCEPT !.isRoadAdjacent = TRUE, !.roadKind = "street"]

\* FlankageCandidate without the skip of the frontage and opposite edges.
FlankageCandidate_noSkip(edge, edgeMatches, frontageIndex, oppositeIndex, baseFrontageStreet, allowRelaxed) ==
    firstDifferentStreetCandidate(MatchesOf(edgeMatches, edge.index),
                                  baseFrontageStreet, allowRelaxed)

\* The flankage candidate applyFlankage finds for an edge, or null.
FlankageCandidate(edge, edgeMatches, frontageIndex, oppositeIndex, baseFrontageStreet, allowRelaxed) ==
    IF edge.index = frontageIndex \/ edge.index = oppositeIndex THEN None
    ELSE firstDifferentStreetCandidate(MatchesOf(edgeMatches, edge.index),
                                       baseFrontageStreet, allowRelaxed)

\* applyFlankage(allowRelaxed): the edges after the pass and the count.
applyFlankage(edges, edgeMatches, frontageIndex, oppositeIndex, baseFrontageStreet, allowRelaxed) ==
    LET Found(edge) == FlankageCandidate(edge, edgeMatches, frontageIndex, oppositeIndex,
                                         baseFrontageStreet, allowRelaxed)
    IN  [edges |-> [i \in 1..Len(edges) |->
                      IF IsSome(Found(edges[i]))
                      THEN StampStreet(edges[i], "Flankage", Found(edges[i])[1])
                      ELSE edges[i]],
         count |-> Cardinality({i \in 1..Len(edges) : IsSome(Found(edges[i]))})]

\* The rear pass looking for a strictly adjacent lane only.
RearPass_strictOnly(oppositeEdge, matches) ==
    LET oppositeLane == firstAdjacentLane(matches, FALSE)
    IN  IF IsSome(oppositeLane)
        THEN [edge |-> [applyMatchToEdge([oppositeEdge EXCEPT !.type = "Rear Lane"],
                                         oppositeLane[1])
                           EXCEPT !.isRoadAdjacent = TRUE, !.roadKind = "lane"],
              usedRelaxedLane |-> FALSE]
        ELSE [edge |-> [oppositeEdge EXCEPT !.type = "Rear"], usedRelaxedLane |-> FALSE]

\* The rear pass on the opposite edge: the edge after it and usedRelaxedLane.
RearPass(oppositeEdge, matches) ==
    LET oppositeLane == firstAdjacentLane(matches, TRUE)
    IN  IF IsSome(oppositeLane)
        THEN LET stamped == [applyMatchToEdge([oppositeEdge EXCEPT !.type = "Rear Lane"],
                                              oppositeLane[1])
                                EXCEPT !.isRoadAdjacent = TRUE, !.roadKind = "lane"]
             IN  IF ~oppositeLane[1].isAdjacent
                 THEN [edge |-> [stamped EXCEPT !.debug.suffix = " (relaxed lane fallback)"],
                       usedRelaxedLane |-> TRUE]
                 ELSE [edge |-> stamped, usedRelaxedLane |-> FALSE]
        ELSE [edge |-> [oppositeEdge EXCEPT !.type = "Rear"], usedRelaxedLane |-> FALSE]

\* The reason text after the three qualifier rules.
FinalReason(reason, lotType, usedRelaxedFlankage, flankageCount, usedRelaxedLane) ==
    LET r1 == IF lotType = "Corner Lot" /\ usedRelaxedFlankage
              THEN reason \o <<"Secondary street detected using relaxed flankage fallback.">>
              ELSE reason
        r2 == IF lotType = "Standard with Lane" /\ usedRelaxedFlankage /\ flankageCount > 0
              THEN reason \o
                   <<"Weak flankage evidence was ignored because a rear lane was detected.">>
              ELSE r1
    IN  IF lotType = "Standard with Lane" /\ usedRelaxedLane
        THEN r2 \o <<"Lane detected using relaxed rear-lane fallback.">>
        ELSE r2

\* Confidence without the name-match rule: high is never reached through it.
Confidence_noNameMatch(frontageMatchedByPrimaryStreet, candidateStreetEdgeCount, lotType, usedRelaxedFlankage, usedRelaxedLane) ==
    LET c1 == IF candidateStreetEdgeCount > 0 THEN "medium" ELSE "low"
    IN  IF usedRelaxedFlankage \/ usedRelaxedLane
        THEN (IF c1 = "low" THEN "low" ELSE "medium")
        ELSE c1

\* hasReliableFlankage that trusts every flankage edge.
hasReliableFlankage_trusting(flankageCount, usedRelaxedFlankage, laneDetectedOnOpposite) ==
    flankageCount > 0

\* Flankage found only by the relaxed pass is not trusted when a lane was
\* detected on the opposite edge.
hasReliableFlankage(flankageCount, usedRelaxedFlankage, laneDetectedOnOpposite) ==
    flankageCount > 0 /\ ~(usedRelaxedFlankage /\ laneDetectedOnOpposite)

\* The confidence that is low whenever the name did not match.
Confidence_lowWithoutNameMatch(frontageMatchedByPrimaryStreet, candidateStreetEdgeCount, lotType, usedRelaxedFlankage, usedRelaxedLane) ==
    IF ~frontageMatchedByPrimaryStreet THEN "low"
    ELSE IF usedRelaxedFlankage \/ usedRelaxedLane THEN "medium"
    ELSE "high"

\* The confidence with every relaxed result at medium.
Confidence_relaxedIsMedium(frontageMatchedByPrimaryStreet, candidateStreetEdgeCount, lotType, usedRelaxedFlankage, usedRelaxedLane) ==
    IF usedRelaxedFlankage \/ usedRelaxedLane THEN "medium"
    ELSE IF frontageMatchedByPrimaryStreet THEN "high"
    ELSE IF candidateStreetEdgeCount > 0 \/ lotType = "Double Fronting" THEN "medium"
    ELSE "low"

Confidence(frontageMatchedByPrimaryStreet, candidateStreetEdgeCount, lotType, usedRelaxedFlankage, usedRelaxedLane) ==
    LET c1 == IF ~frontageMatchedByPrimaryStreet
              THEN (IF candidateStreetEdgeCount > 0 THEN "medium" ELSE "low")
              ELSE "high"
        c2 == IF lotType = "Double Fronting" /\ ~frontageMatchedByPrimaryStreet
              THEN "medium" ELSE c1
    IN  IF usedRelaxedFlankage \/ usedRelaxedLane
        THEN (IF c2 = "low" THEN "low" ELSE "medium")
        ELSE c2

\* The locals of analyzeParcel are carried from one section of the function
\* to the next in a record; each section adds the values it computes.  The
\* edge array, modified in place by the source, is kept as it stands after
\* each section (edges1 .. edges5).

\* parcel.geometry.coordinates[0] ?? []
RingOf(p) == IF Len(p.geometry.coordinates) > 0 THEN p.geometry.coordinates[1] ELSE <<>>

\* ring, edges, primaryStreet, normalizedPrimaryStreet, edgeMatches and the
\* default pass.
RunDefaultPass(parcelArg, provider) ==
    LET edges0 == toRingEdges(RingOf(parcelArg))
        primaryStreet == extractPrimaryStreet(parcelArg.properties.fullAddress,
                                              parcelArg.properties.streetName)
        edgeMatches == EdgeMatchesFor(edges0, provider)
    IN  [coords |-> parcelArg.geometry.coordinates,
         primaryStreet |-> primaryStreet,
         normalizedPrimaryStreet |-> normalizeStreetName(primaryStreet),
         edgeMatches |-> edgeMatches,
         edges1 |-> DefaultPass(edges0, edgeMatches, provider)]

\* candidateStreetEdges and the choice of frontageEdge.
ChooseFrontage(s) ==
    s @@ [selection |-> SelectFrontage(s.edges1, s.edgeMatches, s.normalizedPrimaryStreet)]

\* frontageIndex and the stamping of the frontage edge.
MarkFrontage(s) ==
    LET frontageIndex == IF IsSome(s.selection.frontageEdge)
                         THEN s.selection.frontageEdge[1].index ELSE -1
        frontagePosition == IF IsSome(s.selection.frontageEdge)
                            THEN PositionOf(s.edges1, s.selection.frontageEdge[1].index)
                            ELSE 0
    IN  s @@ [frontageIndex |-> frontageIndex,
              frontagePosition |-> frontagePosition,
              edges2 |-> IF IsSome(s.selection.frontageEdge)
                         THEN WithEdge(s.edges1, frontagePosition,
                                       StampFrontage(s.edges1[frontagePosition],
                                                     MatchesOf(s.edgeMatches, frontageIndex),
                                                     s.normalizedPrimaryStreet))
                         ELSE s.edges1]

\* oppositeIndex.
FindOpposite(s) ==
    s @@ [oppositeIndex |-> IF s.frontageIndex >= 0
                            THEN findOppositeEdgeIndex(s.edges2, s.frontageIndex)
                            ELSE -1]

\* oppositeEdge, frontageStreetNormalized and the double-fronting check with
\* the stamping of the opposite edge as a second frontage.
MarkDoubleFronting(s) ==
    LET frontageEdge == IF s.frontagePosition > 0 THEN Some(s.edges2[s.frontagePosition])
                        ELSE None
        oppositeAt == IF s.oppositeIndex >= 0 THEN EdgeAt(s.edges2, s.oppositeIndex)
                      ELSE None
        oppositePosition == IF IsSome(oppositeAt) THEN s.oppositeIndex + 1 ELSE 0
        frontageStreetNormalized ==
            ResolvedFrontageStreet(frontageEdge, s.normalizedPrimaryStreet)
        doubleFronting == DoubleFrontingCandidate(frontageEdge, oppositeAt, s.edgeMatches,
                                                  frontageStreetNormalized)
    IN  s @@ [oppositePosition |-> oppositePosition,
              frontageStreetNormalized |-> frontageStreetNormalized,
              isDoubleFronting |-> IsSome(doubleFronting),
              edges3 |-> IF IsSome(doubleFronting)
                         THEN WithEdge(s.edges2, oppositePosition,
                                       StampStreet(s.edges2[oppositePosition], "Frontage",
                                                   doubleFronting[1]))
                         ELSE s.edges2]

\* baseFrontageStreet, applyFlankage(false) and, when it found nothing,
\* applyFlankage(true); flankageCount and usedRelaxedFlankage.
MarkFlankage(s) ==
    LET baseFrontageStreet ==
            ResolvedFrontageStreet(IF s.frontagePosition > 0
                                   THEN Some(s.edges3[s.frontagePosition]) ELSE None,
                                   s.normalizedPrimaryStreet)
        strictFlankage == applyFlankage(s.edges3, s.edgeMatches, s.frontageIndex,
                                        s.oppositeIndex, baseFrontageStreet, FALSE)
        relaxedFlankage == applyFlankage(s.edges3, s.edgeMatches, s.frontageIndex,
                                         s.oppositeIndex, baseFrontageStreet, TRUE)
    IN  IF strictFlankage.count > 0
        THEN s @@ [flankageCount |-> strictFlankage.count,
                   usedRelaxedFlankage |-> FALSE,
                   edges4 |-> strictFlankage.edges]
        ELSE s @@ [flankageCount |-> relaxedFlankage.count,
                   usedRelaxedFlankage |-> relaxedFlankage.count > 0,
                   edges4 |-> relaxedFlankage.edges]

\* The rear pass on the opposite edge, usedRelaxedLane and the edge array as
\* it is returned.
MarkRear(s) ==
    LET rear == RearPass(s.edges4[s.oppositePosition],
                         MatchesOf(s.edgeMatches, s.edges4[s.oppositePosition].index))
    IN  IF s.oppositePosition > 0 /\ ~s.isDoubleFronting
        THEN s @@ [usedRelaxedLane |-> rear.usedRelaxedLane,
                   edges5 |-> WithEdge(s.edges4, s.oppositePosition, rear.edge)]
        ELSE s @@ [usedRelaxedLane |-> FALSE, edges5 |-> s.edges4]

\* laneDetectedOnOpposite, hasReliableFlankage, determineLotType, finalReason,
\* confidence, the area and the returned object; with it, the values of the
\* function's locals when it returns.
ReturnAnalysis(s) ==
    LET oppositeEdge == IF s.oppositePosition > 0 THEN Some(s.edges5[s.oppositePosition])
                        ELSE None
        laneDetectedOnOpposite == IsSome(oppositeEdge) /\ oppositeEdge[1].isRoadAdjacent
                                  /\ oppositeEdge[1].roadKind = "lane"
        reliableFlankage == hasReliableFlankage(s.flankageCount, s.usedRelaxedFlankage,
                                                laneDetectedOnOpposite)
        decided == determineLotType(reliableFlankage, s.isDoubleFronting, oppositeEdge)
    IN  [result |-> [areaM2 |-> area(s.coords),
                     primaryStreet |-> s.primaryStreet,
                     lotType |-> decided.lotType,
                     reason |-> FinalReason(decided.reason, decided.lotType,
                                            s.usedRelaxedFlankage, s.flankageCount,
                                            s.usedRelaxedLane),
                     confidence |-> Confidence(s.selection.frontageMatchedByPrimaryStreet,
                                               Len(s.selection.candidateStreetEdges),
                                               decided.lotType, s.usedRelaxedFlankage,
                                               s.usedRelaxedLane),
                     edges |-> s.edges5],
         locals |-> [edgeMatches |-> s.edgeMatches,
                     normalizedPrimaryStreet |-> s.normalizedPrimaryStreet,
                     frontageIndex |-> s.frontageIndex,
                     frontageStep |-> s.selection.step,
                     frontageMatchedByPrimaryStreet |->
                         s.selection.frontageMatchedByPrimaryStreet,
                     candidateStreetEdgeCount |-> Len(s.selection.candidateStreetEdges),
                     oppositeIndex |-> s.oppositeIndex,
                     frontageStreetNormalized |-> s.frontageStreetNormalized,
                     isDoubleFronting |-> s.isDoubleFronting,
                     flankageCount |-> s.flankageCount,
                     usedRelaxedFlankage |-> s.usedRelaxedFlankage,
                     usedRelaxedLane |-> s.usedRelaxedLane,
                     laneDetectedOnOpposite |-> laneDetectedOnOpposite,
                     hasReliableFlankage |-> reliableFlankage]]

\* analyzeParcel(parcel, map): the ParcelAnalysis returned (result) and the
\* values of the function's locals when it returns (locals).  provider is
\* null or holds the map.
analyzeParcel(parcelArg, provider) ==
    ReturnAnalysis(
      MarkRear(
        MarkFlankage(
          MarkDoubleFronting(
            FindOpposite(
              MarkFrontage(
                ChooseFrontage(
                  RunDefaultPass(parcelArg, provider))))))))

-----------------------------------------------------------------------------
(* Inputs of the analysis: parcels and provider answers                    *)

\* Largest number of features the provider returns for one parcel, over all
\* its edge queries.
MaxFeatures == 3

\* polygon coordinates: no ring, an empty ring, one point, a closed ring
\* running out and back (no area), a triangle, a rectangle.
NoRingCoordinates == <<>>
EmptyRingCoordinates == << <<>> >>
OnePointCoordinates == << <<<<0, 0>>>> >>
FlatRingCoordinates == << <<<<0, 0>>, <<12, 0>>, <<0, 0>>>> >>
TriangleCoordinates == << <<<<0, 0>>, <<24, 0>>, <<0, 32>>, <<0, 0>>>> >>
RectangleCoordinates == << <<<<0, 0>>, <<12, 0>>, <<12, 36>>, <<0, 36>>, <<0, 0>>>> >>

ParcelCoordinates ==
    {NoRingCoordinates, EmptyRingCoordinates, OnePointCoordinates, FlatRingCoordinates,
     TriangleCoordinates, RectangleCoordinates}

\* fullAddress and streetName as the parcel data set gives them.
ParcelAddresses ==
    {[fullAddress |-> <<"123", "MAIN", "ST">>, streetName |-> <<"MAIN", "ST">>],
     [fullAddress |-> <<>>, streetName |-> <<>>]}

Parcels ==
    {[geometry |-> [type |-> "Polygon", coordinates |-> c],
      properties |-> [id |-> "p1", fullAddress |-> a.fullAddress,
                      streetName |-> a.streetName]] :
        c \in ParcelCoordinates, a \in ParcelAddresses}

\* The roads of the surroundings, as the map's vector tiles describe them.
RoadProperties(road) ==
    CASE road = "main" -> [name |-> <<"Main", "St.">>, class |-> "street", layer |-> "road"]
      [] road = "oak" -> [name |-> <<"Oak", "Avenue">>, class |-> "secondary",
                          layer |-> "road"]
      [] road = "unnamed" -> [name |-> <<>>, class |-> "street", layer |-> "road"]
      [] road = "lane" -> [name |-> <<"Rear", "Lane">>, class |-> "service",
                           layer |-> "road"]

\* What the provider can return near an edge: a road, and where its line
\* runs: along the edge ("par") or across it ("perp"), offset metres away
\* from the edge's midpoint.
FeatureKinds ==
    <<[road |-> "main", shape |-> "par", offset |-> 8],
      [road |-> "main", shape |-> "par", offset |-> 28],
      [road |-> "oak", shape |-> "par", offset |-> 8],
      [road |-> "oak", shape |-> "par", offset |-> 22],
      [road |-> "unnamed", shape |-> "par", offset |-> 8],
      [road |-> "lane", shape |-> "par", offset |-> 8],
      [road |-> "lane", shape |-> "perp", offset |-> 8]>>

\* The line of a feature kind near an edge: a straight piece through the
\* point offset metres from the midpoint, along the x or the y axis.
LineNear(edge, kind) ==
    LET m == edge.midpoint
        eastWest == Abs(edge.end[1] - edge.start[1]) >= Abs(edge.end[2] - edge.start[2])
        alongX == (kind.shape = "par") = eastWest
    IN  IF alongX
        THEN <<<<m[1] - 40, m[2] - kind.offset>>, <<m[1] + 40, m[2] - kind.offset>>>>
        ELSE <<<<m[1] - kind.offset, m[2] + 40>>, <<m[1] - kind.offset, m[2] - 40>>>>

FeatureNear(edge, kind) ==
    LET props == RoadProperties(kind.road)
    IN  [type |-> "Feature",
         geometry |-> [type |-> "LineString", coordinates |-> LineNear(edge, kind)],
         properties |-> [name |-> props.name, class |-> props.class],
         sourceLayer |-> props.layer]

\* A provider answer: for every edge index, the features returned for the
\* query around that edge.  placed lists <<edge index, feature kind>> pairs
\* in the order the provider returns them.
RenderedFor(edges, placed) ==
    [index \in {edges[i].index : i \in 1..Len(edges)} |->
        LET ForEdge(slot) == slot[1] = index
            Place(slot) == FeatureNear(edges[PositionOf(edges, index)], FeatureKinds[slot[2]])
            slots == SelectSeq(placed, ForEdge)
        IN  [i \in 1..Len(slots) |-> Place(slots[i])]]

Placements(edges) ==
    LET slots == {edges[i].index : i \in 1..Len(edges)} \X (1..Len(FeatureKinds))
    IN  UNION {{placed \in [1..n -> slots] :
                    \A i \in 1..(n - 1) : placed[i][1] <= placed[i + 1][1]} :
               n \in 0..MaxFeatures}

\* The maps a parcel can be analysed with.
Providers(p) ==
    {[rendered |-> RenderedFor(toRingEdges(RingOf(p)), placed)] :
        placed \in Placements(toRingEdges(RingOf(p)))}

-----------------------------------------------------------------------------
(* Specification of the analysis: analyzeParcel called twice on one parcel  *)

IdleRing == coordinates = <<>> /\ ringEdges = None

IdleIndex == parcels = <<>> /\ viewportIndex = None /\ query = None /\ selected = None

IdleOrientation == bearings = <<0, 0>> /\ orientationDiffs = None

IdleRender ==
    /\ heap = <<>> /\ indexRef = 0 /\ reader = None
    /\ renderedParcels = <<>> /\ selectedParcelId = None

IdleSelection == selection = None /\ chosen = None

IdleOpposite == opposite = None

IdleEvaluator == evaluation = None

IdleFinder == finder = None

IdleHook == hook = None /\ idleCallbacks = <<>> /\ tiles = 0 /\ lastCall = ""

IdleHistory == searchHistory = <<>> /\ storage = None /\ pushResult = None /\ pushed = <<>> /\ lastHistoryCall = ""

IdleFetch == fetchPc = "" /\ attempt = 0 /\ fetches = 0 /\ waits = <<>> /\ errors = <<>> /\ payload = None

IdleAnalysis ==
    /\ parcel = None /\ map = None /\ analysis = None /\ trace = None
    /\ firstAnalysis = None /\ calls = 0

Init ==
    /\ \E p \in Parcels :
          /\ parcel = Some(p)
          /\ \/ map = None
             \/ \E provider \in Providers(p) : map = Some(provider)
    /\ analysis = None
    /\ trace = None
    /\ firstAnalysis = None
    /\ calls = 0
    /\ IdleRing
    /\ IdleIndex
    /\ IdleOrientation
    /\ IdleRender
    /\ IdleSelection
    /\ IdleOpposite
    /\ IdleEvaluator
    /\ IdleFinder
    /\ IdleHook
    /\ IdleHistory
    /\ IdleFetch

\* A first call that consumes the parcel's ring: it removes the closing
\* position from the ring it was given.
Analyze_consumesRing ==
    /\ calls = 0
    /\ \E returned \in {analyzeParcel(parcel[1], map)} :
           /\ analysis' = Some(returned.result)
           /\ firstAnalysis' = Some(returned.result)
           /\ trace' = Some(returned.locals)
    /\ parcel' = IF Len(RingOf(parcel[1])) > 0
                 THEN Some([parcel[1] EXCEPT !.geometry.coordinates[1] =
                               SubSeq(@, 1, Len(@) - 1)])
                 ELSE parcel
    /\ calls' = 1
    /\ UNCHANGED <<map, ringVars, indexVars, orientationVars, renderVars, selectionVars, oppositeVars,
                   evaluatorVars,
                   finderVars,
                   hookVars,
                   historyVars,
                   fetchVars>>

\* The first analyzeParcel(parcel, map) call.
Analyze ==
    /\ calls = 0
    /\ \E returned \in {analyzeParcel(parcel[1], map)} :
           /\ analysis' = Some(returned.result)
           /\ firstAnalysis' = Some(returned.result)
           /\ trace' = Some(returned.locals)
    /\ calls' = 1
    /\ UNCHANGED <<parcel, map, ringVars, indexVars, orientationVars, renderVars, selectionVars, oppositeVars,
                   evaluatorVars,
                   finderVars,
                   hookVars,
                   historyVars,
                   fetchVars>>

\* A second analyzeParcel(parcel, map) call on the same parcel and map.
Reanalyze ==
    /\ calls = 1
    /\ \E returned \in {analyzeParcel(parcel[1], map)} :
           /\ analysis' = Some(returned.result)
           /\ trace' = Some(returned.locals)
    /\ calls' = 2
    /\ UNCHANGED <<parcel, map, firstAnalysis, ringVars, indexVars, orientationVars, renderVars, selectionVars, oppositeVars,
                   evaluatorVars,
                   finderVars,
                   hookVars,
                   historyVars,
                   fetchVars>>

Next == Analyze \/ Reanalyze

Spec == Init /\ [][Next]_vars

-----------------------------------------------------------------------------
(* The edge extractor on its own: toRingEdges on any ring                  *)

\* Longest ring given to toRingEdges.
MaxRingLen == 4

RingPositions == {<<0, 0>>, <<12, 0>>, <<12, 36>>, <<0, 36>>}

RECURSIVE RingsUpTo(_)
\* Every array of at most n entries, each a position or missing.
RingsUpTo(n) ==
    IF n = 0 THEN {<<>>}
    ELSE LET shorter == RingsUpTo(n - 1)
         IN  shorter \cup {Append(ring, entry) :
                              ring \in {r \in shorter : Len(r) = n - 1},
                              entry \in RingPositions \cup {NullPosition}}

InitRing ==
    /\ coordinates \in RingsUpTo(MaxRingLen)
    /\ ringEdges = None
    /\ IdleAnalysis
    /\ IdleIndex
    /\ IdleOrientation
    /\ IdleRender
    /\ IdleSelection
    /\ IdleOpposite
    /\ IdleEvaluator
    /\ IdleFinder
    /\ IdleHook
    /\ IdleHistory
    /\ IdleFetch

\* toRingEdges(coordinates)
ExtractEdges ==
    /\ ringEdges = None
    /\ ringEdges' = Some(toRingEdges(coordinates))
    /\ UNCHANGED <<coordinates, analysisVars, indexVars, orientationVars, renderVars, selectionVars, oppositeVars,
                   evaluatorVars,
                   finderVars,
                   hookVars,
                   historyVars,
                   fetchVars>>

NextRing == ExtractEdges

SpecRing == InitRing /\ [][NextRing]_vars

-----------------------------------------------------------------------------
(* The orientation difference on its own: parallelOrientationDiffDeg on    *)
(* any two bearings, in whole degrees                                      *)

\* Largest bearing given to parallelOrientationDiffDeg, in absolute value:
\* more than a full turn either way.
MaxBearingDeg == 365

InitOrientation ==
    /\ bearings \in (-MaxBearingDeg..MaxBearingDeg) \X (-MaxBearingDeg..MaxBearingDeg)
    /\ orientationDiffs = None
    /\ IdleAnalysis
    /\ IdleRing
    /\ IdleIndex
    /\ IdleRender
    /\ IdleSelection
    /\ IdleOpposite
    /\ IdleEvaluator
    /\ IdleFinder
    /\ IdleHook
    /\ IdleHistory
    /\ IdleFetch

\* parallelOrientationDiffDeg(a, b) and parallelOrientationDiffDeg(b, a)
CompareOrientations ==
    /\ orientationDiffs = None
    /\ orientationDiffs' = Some(<<parallelOrientationDiffDeg(bearings[1], bearings[2]),
                                 parallelOrientationDiffDeg(bearings[2], bearings[1])>>)
    /\ UNCHANGED <<bearings, analysisVars, ringVars, indexVars, renderVars, selectionVars, oppositeVars,
                   evaluatorVars,
                   finderVars,
                   hookVars,
                   historyVars,
                   fetchVars>>

NextOrientation == CompareOrientations

SpecOrientation == InitOrientation /\ [][NextOrientation]_vars

-----------------------------------------------------------------------------
(* The parcel viewport index (parcelViewportIndex.ts)                      *)
(*                                                                         *)
(* Longitudes and latitudes are whole numbers of 0.00001 degree, so that   *)
(* the default cell size 0.005 is 500.  Every parcel and bound lies on a   *)
(* multiple of 100 and a padding ratio is a whole percentage: the padded   *)
(* bounds are then whole numbers.  A lon or lat is a sequence holding the  *)
(* number, or the empty sequence for a value that is not a finite number.  *)

DEFAULT_CELL_SIZE_DEG == 500

\* The default paddingRatio, 0.22, in percent.
DefaultPaddingPercent == 22

NumberIsFinite(value) == Len(value) = 1

\* Math.floor(value / cellSizeDeg), for a positive cell size.
cellIndex(value, cellSizeDeg) == value \div cellSizeDeg

\* `${x}:${y}`
cellKey(x, y) == <<x, y>>

distanceSq(a, b) ==
    LET dx == a[1] - b[1]
        dy == a[2] - b[2]
    IN  dx * dx + dy * dy

RECURSIVE BucketParcels_overwrite(_, _, _)
\* The loop with cells.set for every parcel: a bucket keeps its last parcel.
BucketParcels_overwrite(remaining, cells, cellSizeDeg) ==
    IF Len(remaining) = 0 THEN cells
    ELSE
    LET parcelFeature == Head(remaining)
        lon == parcelFeature.properties.lon
        lat == parcelFeature.properties.lat
    IN  IF ~NumberIsFinite(lon) \/ ~NumberIsFinite(lat)
        THEN BucketParcels_overwrite(Tail(remaining), cells, cellSizeDeg)
        ELSE LET key == cellKey(cellIndex(lon[1], cellSizeDeg),
                                cellIndex(lat[1], cellSizeDeg))
             IN  BucketParcels_overwrite(Tail(remaining),
                               IF key \in DOMAIN cells
                               THEN [cells EXCEPT ![key] = <<parcelFeature>>]
                               ELSE cells @@ (key :> <<parcelFeature>>),
                               cellSizeDeg)

RECURSIVE BucketParcels(_, _, _)
\* The loop of buildParcelViewportIndex: cells after the parcels left.
BucketParcels(remaining, cells, cellSizeDeg) ==
    IF Len(remaining) = 0 THEN cells
    ELSE
    LET parcelFeature == Head(remaining)
        lon == parcelFeature.properties.lon
        lat == parcelFeature.properties.lat
    IN  IF ~NumberIsFinite(lon) \/ ~NumberIsFinite(lat)
        THEN BucketParcels(Tail(remaining), cells, cellSizeDeg)
        ELSE LET key == cellKey(cellIndex(lon[1], cellSizeDeg),
                                cellIndex(lat[1], cellSizeDeg))
             IN  BucketParcels(Tail(remaining),
                               IF key \in DOMAIN cells
                               THEN [cells EXCEPT ![key] = Append(@, parcelFeature)]
                               ELSE cells @@ (key :> <<parcelFeature>>),
                               cellSizeDeg)

buildParcelViewportIndex(parcelList, cellSizeDeg) ==
    [cellSizeDeg |-> cellSizeDeg,
     cells |-> BucketParcels(parcelList, [key \in {} |-> <<>>], cellSizeDeg)]

\* The bounds of a query after padding.  bounds is [west, east, south,
\* north]; paddingRatio is null or holds a percentage.
PaddedBounds(bounds, paddingRatio) ==
    LET percent == IF IsSome(paddingRatio) THEN paddingRatio[1] ELSE DefaultPaddingPercent
        lonSpan == Max(0, bounds.east - bounds.west)
        latSpan == Max(0, bounds.north - bounds.south)
    IN  [west |-> bounds.west - (lonSpan * percent) \div 100,
         east |-> bounds.east + (lonSpan * percent) \div 100,
         south |-> bounds.south - (latSpan * percent) \div 100,
         north |-> bounds.north + (latSpan * percent) \div 100]

\* The parcel passes the test applied to every parcel of a visited bucket.
\* A comparison with a value that is not a number is false.
InPaddedBounds_wholeBucket(parcelFeature, padded) == TRUE

InPaddedBounds(parcelFeature, padded) ==
    LET lon == parcelFeature.properties.lon
        lat == parcelFeature.properties.lat
    IN  ~(\/ NumberIsFinite(lon) /\ lon[1] < padded.west
          \/ NumberIsFinite(lon) /\ lon[1] > padded.east
          \/ NumberIsFinite(lat) /\ lat[1] < padded.south
          \/ NumberIsFinite(lat) /\ lat[1] > padded.north)

\* The parcels pushed to selected by the loops over x and y, in push order.
SelectedInCells(index, padded) ==
    LET minX == cellIndex(padded.west, index.cellSizeDeg)
        maxX == cellIndex(padded.east, index.cellSizeDeg)
        minY == cellIndex(padded.south, index.cellSizeDeg)
        maxY == cellIndex(padded.north, index.cellSizeDeg)
        rows == Max(0, maxY - minY + 1)
        visited == Max(0, maxX - minX + 1) * rows
        KeyAt(k) == cellKey(minX + ((k - 1) \div rows), minY + ((k - 1) % rows))
        Inside(parcelFeature) == InPaddedBounds(parcelFeature, padded)
    IN  FlattenSeq([k \in 1..visited |->
                      IF KeyAt(k) \in DOMAIN index.cells
                      THEN SelectSeq(index.cells[KeyAt(k)], Inside)
                      ELSE <<>>])

\* center ?? the padded box's center, with both coordinates doubled (the
\* box's center may fall between two whole numbers).
FallbackCenterDoubled(center, padded) ==
    IF IsSome(center) THEN <<2 * center[1][1], 2 * center[1][2]>>
    ELSE <<padded.west + padded.east, padded.south + padded.north>>

\* Four times distanceSq([lon, lat], fallbackCenter).
DistanceToCenter(parcelFeature, centerDoubled) ==
    distanceSq(<<2 * parcelFeature.properties.lon[1], 2 * parcelFeature.properties.lat[1]>>,
               centerDoubled)

\* The comparator of selected.sort reversed: the farthest parcel first.
FartherThan_reversed(a, b, centerDoubled) ==
    DistanceToCenter(b, centerDoubled) - DistanceToCenter(a, centerDoubled) > 0

\* The comparator of selected.sort, as "a sorts after b": da - db > 0.
FartherThan(a, b, centerDoubled) ==
    DistanceToCenter(a, centerDoubled) - DistanceToCenter(b, centerDoubled) > 0

\* options is [paddingRatio, maxFeatures, center], each null or holding a
\* value; a null maxFeatures is the default, Number.POSITIVE_INFINITY.
queryParcelsInBounds(index, bounds, options) ==
    LET padded == PaddedBounds(bounds, options.paddingRatio)
        found == SelectedInCells(index, padded)
        centerDoubled == FallbackCenterDoubled(options.center, padded)
        positions == 1..Len(found)
        sorted == StableSort(found,
                             {pair \in positions \X positions :
                                 FartherThan(found[pair[1]], found[pair[2]],
                                             centerDoubled)})
    IN  IF ~IsSome(options.maxFeatures) \/ Len(found) <= options.maxFeatures[1]
        THEN found
        ELSE SubSeq(sorted, 1, options.maxFeatures[1])

\* Parcels, bounds and options of the index specification.

\* Largest number of parcels given to buildParcelViewportIndex.
MaxParcels == 3

\* Largest cap (maxFeatures) of a query.
MaxCap == 2

IndexedParcel(id, lon, lat) == [properties |-> [id |-> id, lon |-> lon, lat |-> lat]]

\* Two parcels share a point; one parcel has no usable longitude and one no
\* usable latitude.
ParcelCatalogue ==
    {IndexedParcel("a", <<0>>, <<0>>), IndexedParcel("b", <<400>>, <<0>>),
     IndexedParcel("c", <<400>>, <<0>>), IndexedParcel("d", <<400>>, <<400>>),
     IndexedParcel("e", <<-100>>, <<0>>), IndexedParcel("f", <<900>>, <<400>>),
     IndexedParcel("g", <<>>, <<0>>), IndexedParcel("h", <<400>>, <<>>)}

RECURSIVE ParcelListsUpTo(_)
\* Every list of at most n distinct parcels of the catalogue.
ParcelListsUpTo(n) ==
    IF n = 0 THEN {<<>>}
    ELSE LET shorter == ParcelListsUpTo(n - 1)
             longest == {list \in shorter : Len(list) = n - 1}
         IN  shorter \cup
             {Append(pair[1], pair[2]) :
                 pair \in {candidate \in longest \X ParcelCatalogue :
                              \A i \in 1..(n - 1) : candidate[1][i] # candidate[2]}}

CellSizes == {DEFAULT_CELL_SIZE_DEG, 300}

QueryBounds ==
    {[west |-> 0, east |-> 400, south |-> 0, north |-> 400],
     [west |-> -600, east |-> 900, south |-> 0, north |-> 400],
     [west |-> 400, east |-> 400, south |-> -100, north |-> 100],
     [west |-> 400, east |-> 0, south |-> 0, north |-> 400]}

QueryOptions ==
    [paddingRatio : {None, Some(0), Some(50)},
     maxFeatures : {None} \cup {Some(cap) : cap \in 0..MaxCap},
     center : {None, Some(<<400, 0>>)}]

InitIndex ==
    /\ parcels \in ParcelListsUpTo(MaxParcels)
    /\ viewportIndex = None
    /\ query = None
    /\ selected = None
    /\ IdleAnalysis
    /\ IdleRing
    /\ IdleOrientation
    /\ IdleRender
    /\ IdleSelection
    /\ IdleOpposite
    /\ IdleEvaluator
    /\ IdleFinder
    /\ IdleHook
    /\ IdleHistory
    /\ IdleFetch

\* buildParcelViewportIndex(parcels) or (parcels, cellSizeDeg)
BuildIndex ==
    /\ viewportIndex = None
    /\ \E cellSizeDeg \in CellSizes :
          viewportIndex' = Some(buildParcelViewportIndex(parcels, cellSizeDeg))
    /\ UNCHANGED <<parcels, query, selected, analysisVars, ringVars, orientationVars, renderVars, selectionVars, oppositeVars,
                   evaluatorVars,
                   finderVars,
                   hookVars,
                   historyVars,
                   fetchVars>>

\* queryParcelsInBounds(viewportIndex, bounds, options)
Query ==
    /\ IsSome(viewportIndex)
    /\ query = None
    /\ \E bounds \in QueryBounds, options \in QueryOptions :
          /\ query' = Some([bounds |-> bounds, options |-> options])
          /\ selected' = Some(queryParcelsInBounds(viewportIndex[1], bounds, options))
    /\ UNCHANGED <<parcels, viewportIndex, analysisVars, ringVars, orientationVars, renderVars, selectionVars, oppositeVars,
                   evaluatorVars,
                   finderVars,
                   hookVars,
                   historyVars,
                   fetchVars>>

NextIndex == BuildIndex \/ Query

SpecIndex == InitIndex /\ [][NextIndex]_vars

-----------------------------------------------------------------------------
(* The rendered parcel set (useRenderedParcels, useParcelSelection, App)   *)
(*                                                                         *)
(* A ParcelViewportIndex is an object: heap holds the indexes built so far *)
(* and a reference to one is its position in heap.  The update callback is *)
(* a closure over the parcels, the map and the viewportIndex of the render *)
(* that created it; it stays registered until the effects of a later       *)
(* render replace it, so it can run against an index that is no longer the *)
(* memoized one.                                                           *)

\* Largest number of times the parcel set changes.
MaxRebuilds == 2

maxParcelsForZoom(zoom) ==
    IF zoom < 11 THEN 2800
    ELSE IF zoom < 12 THEN 5000
    ELSE IF zoom < 13 THEN 8000
    ELSE IF zoom < 14 THEN 12000
    ELSE 22000

sameParcelIdOrder(a, b) ==
    /\ Len(a) = Len(b)
    /\ \A i \in 1..Len(a) : a[i].properties.id = b[i].properties.id

\* parcelsById.get(selectedParcelId) ?? null, or null without an id.  The
\* map is filled by byId.set in list order: the last parcel of an id stays.
selectedParcelOf(parcelList, selectedId) ==
    LET holders == IF IsSome(selectedId)
                   THEN {i \in 1..Len(parcelList) :
                            parcelList[i].properties.id = selectedId[1]}
                   ELSE {}
    IN  IF holders = {} THEN None
        ELSE Some(parcelList[CHOOSE i \in holders : \A j \in holders : j <= i])

\* App.mapParcels
mapParcels(rendered, selectedParcel) ==
    IF ~IsSome(selectedParcel) THEN rendered
    ELSE IF \E i \in 1..Len(rendered) :
               rendered[i].properties.id = selectedParcel[1].properties.id
    THEN rendered
    ELSE <<selectedParcel[1]>> \o rendered

\* The options update passes to queryParcelsInBounds: paddingRatio 0.24,
\* the cap of the zoom, and the center of the map (here of its bounds).
UpdateOptions(view, zoom) ==
    [paddingRatio |-> Some(24),
     maxFeatures |-> Some(maxParcelsForZoom(zoom)),
     center |-> Some(<<(view.west + view.east) \div 2,
                       (view.south + view.north) \div 2>>)]

\* The value update gives to setRenderedParcels, applied to current.
\* closure is what the callback captured; index is its viewportIndex.
UpdatedRendered(current, closure, index, view, zoom) ==
    IF Len(closure.parcels) = 0 THEN <<>>
    ELSE LET next == IF ~closure.map
                     THEN SubSeq(closure.parcels, 1, Min(4500, Len(closure.parcels)))
                     ELSE queryParcelsInBounds(index, view, UpdateOptions(view, zoom))
         IN  IF sameParcelIdOrder(current, next) THEN current ELSE next

\* The heap after useMemo stored the index in the object at ref instead of
\* building a new object.
HeapAfterBuild_inPlace(objects, ref, index) == [objects EXCEPT ![ref] = index]

\* The heap after buildParcelViewportIndex returned index: a new object
\* (a new Map and new bucket arrays); ref is the memoized index so far.
HeapAfterBuild(objects, ref, index) == Append(objects, index)

\* Two records of the data share the id "b" (the id is the record's
\* site_id; nothing removes a repeated one).
RenderedCatalogue ==
    {IndexedParcel("a", <<0>>, <<0>>), IndexedParcel("b", <<400>>, <<0>>),
     IndexedParcel("b", <<2000>>, <<0>>)}

\* Every list of distinct parcels of the catalogue.
RenderedParcelLists ==
    {list \in UNION {[1..n -> RenderedCatalogue] : n \in 0..Cardinality(RenderedCatalogue)} :
        \A i, j \in 1..Len(list) : list[i] = list[j] => i = j}

SelectableIds == {"a", "b", "z"}

ViewBounds ==
    {[west |-> 0, east |-> 400, south |-> -200, north |-> 200],
     [west |-> 1800, east |-> 2200, south |-> -200, north |-> 200],
     [west |-> 0, east |-> 2000, south |-> -200, north |-> 200]}

Zooms == {10, 14}

\* The first render: no parcels, the index of no parcels, nothing selected.
InitViewport ==
    /\ parcels = <<>>
    /\ heap = <<buildParcelViewportIndex(<<>>, DEFAULT_CELL_SIZE_DEG)>>
    /\ indexRef = 1
    /\ reader = None
    /\ renderedParcels = <<>>
    /\ selectedParcelId = None
    /\ viewportIndex = None /\ query = None /\ selected = None
    /\ IdleAnalysis
    /\ IdleRing
    /\ IdleOrientation
    /\ IdleSelection
    /\ IdleOpposite
    /\ IdleEvaluator
    /\ IdleFinder
    /\ IdleHook
    /\ IdleHistory
    /\ IdleFetch

\* setParcels(next) and the render it causes: useMemo builds a new index.
SetParcels ==
    /\ Len(heap) <= MaxRebuilds
    /\ \E next \in RenderedParcelLists :
          /\ parcels' = next
          /\ heap' = HeapAfterBuild(heap, indexRef,
                                    buildParcelViewportIndex(next, DEFAULT_CELL_SIZE_DEG))
    /\ indexRef' = Len(heap')
    /\ UNCHANGED <<reader, renderedParcels, selectedParcelId, viewportIndex, query,
                   selected, analysisVars, ringVars, orientationVars,
                   selectionVars,
                   oppositeVars,
                   evaluatorVars,
                   finderVars,
                   hookVars,
                   historyVars,
                   fetchVars>>

\* The effects of the latest render: its update callback replaces the
\* registered one.  The map is loaded or still null.
Subscribe ==
    /\ \E hasMap \in BOOLEAN :
          /\ reader # Some([parcels |-> parcels, viewportIndex |-> indexRef, map |-> hasMap])
          /\ reader' = Some([parcels |-> parcels, viewportIndex |-> indexRef, map |-> hasMap])
    /\ UNCHANGED <<parcels, heap, indexRef, renderedParcels, selectedParcelId,
                   viewportIndex, query, selected, analysisVars, ringVars,
                   orientationVars,
                   selectionVars,
                   oppositeVars,
                   evaluatorVars,
                   finderVars,
                   hookVars,
                   historyVars,
                   fetchVars>>

\* The registered update callback runs (animation frame or moveend).
Update ==
    /\ IsSome(reader)
    /\ \E view \in ViewBounds, zoom \in Zooms :
          renderedParcels' = UpdatedRendered(renderedParcels, reader[1],
                                             heap[reader[1].viewportIndex], view, zoom)
    /\ UNCHANGED <<parcels, heap, indexRef, reader, selectedParcelId, viewportIndex,
                   query, selected, analysisVars, ringVars, orientationVars,
                   selectionVars,
                   oppositeVars,
                   evaluatorVars,
                   finderVars,
                   hookVars,
                   historyVars,
                   fetchVars>>

\* select(parcelId)
Select ==
    /\ \E parcelId \in SelectableIds : selectedParcelId' = Some(parcelId)
    /\ UNCHANGED <<parcels, heap, indexRef, reader, renderedParcels, viewportIndex,
                   query, selected, analysisVars, ringVars, orientationVars,
                   selectionVars,
                   oppositeVars,
                   evaluatorVars,
                   finderVars,
                   hookVars,
                   historyVars,
                   fetchVars>>

NextViewport == SetParcels \/ Subscribe \/ Update \/ Select

SpecViewport == InitViewport /\ [][NextViewport]_vars

-----------------------------------------------------------------------------
(* selectNearestEdgeByStreetCandidate on its own                           *)
(*                                                                         *)
(* The arguments are a list of edges, each with one evaluated street       *)
(* candidate.  Only the fields the function reads are kept: the index and  *)
(* length of an edge; the kind, name, adjacency, distance and orientation  *)
(* difference of a candidate.                                              *)

\* Largest number of edges given to selectNearestEdgeByStreetCandidate.
MaxEligible == 3

EdgeLengths == {10, 12, 14}

MatchedDistances == {0, 3, 6}

MatchedOrientations == {0, 5}

\* An EvaluatedRoadCandidate of a street named Main St.
StreetCandidateAt(distanceMeters, orientationDiffDeg) ==
    [name |-> <<"Main", "St.">>,
     kind |-> "street",
     distanceMeters |-> distanceMeters,
     orientationDiffDeg |-> orientationDiffDeg,
     isAdjacent |-> distanceMeters <= ROAD_PROXIMITY_THRESHOLD_METERS
                    /\ orientationDiffDeg <= ROAD_ORIENTATION_THRESHOLD_DEG]

\* The edges of a list of [lengthMeters, distanceMeters, orientationDiffDeg]:
\* the edge at position i has index i - 1.
EdgesOf(shape) == [i \in 1..Len(shape) |-> [index |-> i - 1, lengthMeters |-> shape[i][1]]]

\* edgeMatches: one street candidate for every edge.
MatchesFor(shape) ==
    [index \in 0..(Len(shape) - 1) |->
        <<StreetCandidateAt(shape[index + 1][2], shape[index + 1][3])>>]

InitSelection ==
    /\ \E n \in 1..MaxEligible :
          \E shape \in [1..n -> EdgeLengths \X MatchedDistances \X MatchedOrientations] :
             selection = Some([edges |-> EdgesOf(shape), edgeMatches |-> MatchesFor(shape)])
    /\ chosen = None
    /\ IdleAnalysis
    /\ IdleRing
    /\ IdleIndex
    /\ IdleOrientation
    /\ IdleRender
    /\ IdleOpposite
    /\ IdleEvaluator
    /\ IdleFinder
    /\ IdleHook
    /\ IdleHistory
    /\ IdleFetch

\* selectNearestEdgeByStreetCandidate(edges, edgeMatches, options), with or
\* without a street name and relaxed thresholds.
SelectEdge ==
    /\ chosen = None
    /\ \E normalizedStreet \in {<<>>, normalizeStreetName(<<"Main", "St.">>)},
          allowRelaxed \in BOOLEAN :
          chosen' = Some(selectNearestEdgeByStreetCandidate(
                             selection[1].edges, selection[1].edgeMatches,
                             normalizedStreet, allowRelaxed, "frontage"))
    /\ UNCHANGED <<selection, analysisVars, ringVars, indexVars, orientationVars,
                   renderVars,
                   oppositeVars,
                   evaluatorVars,
                   finderVars,
                   hookVars,
                   historyVars,
                   fetchVars>>

NextSelection == SelectEdge

SpecSelection == InitSelection /\ [][NextSelection]_vars

-----------------------------------------------------------------------------
(* findOppositeEdgeIndex on its own                                        *)
(*                                                                         *)
(* The edges are those of a closed ring through two to five corners of a   *)
(* hexagon, in any order, and the frontage is any of them.                 *)

\* Largest number of corners of a ring given to findOppositeEdgeIndex.
MaxCorners == 5

Corners == {<<0, 0>>, <<20, 0>>, <<30, 16>>, <<20, 32>>, <<0, 32>>, <<-10, 16>>}

\* The closed rings through n distinct corners.
ClosedRings(n) ==
    {ring \o <<ring[1]>> :
        ring \in {r \in [1..n -> Corners] : \A i, j \in 1..n : r[i] = r[j] => i = j}}

InitOpposite ==
    /\ \E n \in 2..MaxCorners :
          \E ring \in ClosedRings(n) :
             opposite = Some([edges |-> toRingEdges(ring), frontageIndex |-> -1,
                              oppositeIndex |-> None])
    /\ IdleAnalysis
    /\ IdleRing
    /\ IdleIndex
    /\ IdleOrientation
    /\ IdleRender
    /\ IdleSelection
    /\ IdleEvaluator
    /\ IdleFinder
    /\ IdleHook
    /\ IdleHistory
    /\ IdleFetch

\* findOppositeEdgeIndex(edges, frontageIndex), for the index of an edge.
FindOppositeEdge ==
    /\ opposite # None
    /\ opposite[1].oppositeIndex = None
    /\ \E frontageIndex \in 0..(Len(opposite[1].edges) - 1) :
          opposite' = Some([edges |-> opposite[1].edges,
                            frontageIndex |-> frontageIndex,
                            oppositeIndex |->
                                Some(findOppositeEdgeIndex(opposite[1].edges,
                                                           frontageIndex))])
    /\ UNCHANGED <<analysisVars, ringVars, indexVars, orientationVars, renderVars,
                   selectionVars,
                   evaluatorVars,
                   finderVars,
                   hookVars,
                   historyVars,
                   fetchVars>>

NextOpposite == FindOppositeEdge

SpecOpposite == InitOpposite /\ [][NextOpposite]_vars

-----------------------------------------------------------------------------
(* The candidate evaluator on its own: evaluateRoadCandidateForEdge on     *)
(* every candidate of an edge, and the sort of the evaluated list          *)
(*                                                                         *)
(* The edge runs from <<0, 0>> to <<12, 0>>.  A candidate has no line, one *)
(* line through one to three points, or that line after a fixed one.       *)

\* Largest number of points of a line of a candidate.
MaxLinePoints == 3

LinePoints == {<<-10, -10>>, <<6, -8>>, <<20, -8>>, <<6, -30>>}

\* The lines through one point (no segment) up to MaxLinePoints points.
Polylines == UNION {[1..n -> LinePoints] : n \in 1..MaxLinePoints}

FarLine == <<<<-20, -50>>, <<40, -50>>>>

LineCollections ==
    {<<>>} \cup {<<line>> : line \in Polylines} \cup {<<FarLine, line>> : line \in Polylines}

EvaluatedEdge == toRingEdges(<<<<0, 0>>, <<12, 0>>>>)[1]

\* A RoadCandidate.
CandidateOf(name, kind, lines) ==
    [name |-> name, kind |-> kind,
     className |-> IF kind = "lane" THEN "service" ELSE "street",
     sourceLayer |-> "road", lines |-> lines]

\* The candidates that accompany the first one.
OtherCandidates ==
    {CandidateOf(<<"Oak", "Avenue">>, "street", <<<<<<-20, -9>>, <<40, -9>>>>>>),
     CandidateOf(<<"Oak", "Avenue">>, "street", <<<<<<-20, -26>>, <<40, -26>>>>>>),
     CandidateOf(<<"Oak", "Avenue">>, "street", <<<<<<6, 0>>, <<20, 6>>>>>>),
     CandidateOf(<<"Oak", "Avenue">>, "lane", <<<<<<6, -24>>>>>>)}

InitEvaluator ==
    /\ \E kind \in {"street", "lane"}, lines \in LineCollections :
          \E others \in {<<>>} \cup {<<other>> : other \in OtherCandidates} :
             evaluation = Some([edge |-> EvaluatedEdge,
                                candidates |-> <<CandidateOf(<<"Main", "St.">>, kind, lines)>>
                                               \o others,
                                evaluated |-> None])
    /\ IdleAnalysis
    /\ IdleRing
    /\ IdleIndex
    /\ IdleOrientation
    /\ IdleRender
    /\ IdleSelection
    /\ IdleOpposite
    /\ IdleFinder
    /\ IdleHook
    /\ IdleHistory
    /\ IdleFetch

\* The loop and the sort of findEvaluatedRoadCandidatesForEdge on the
\* candidates of the edge.
EvaluateCandidates ==
    /\ evaluation # None
    /\ evaluation[1].evaluated = None
    /\ evaluation' = Some([evaluation[1] EXCEPT
                              !.evaluated = Some(SortEvaluated(
                                  EvaluateAll(evaluation[1].edge,
                                              evaluation[1].candidates)))])
    /\ UNCHANGED <<analysisVars, ringVars, indexVars, orientationVars, renderVars,
                   selectionVars, oppositeVars,
                   finderVars,
                   hookVars,
                   historyVars,
                   fetchVars>>

NextEvaluator == EvaluateCandidates

SpecEvaluator == InitEvaluator /\ [][NextEvaluator]_vars

-----------------------------------------------------------------------------
(* The candidate finder on its own: toRoadCandidate on every feature the   *)
(* provider returns, and uniqueCandidates on the candidates                *)

FinderNames ==
    <<<<"Main", "Street">>, <<"MAIN", "Street">>, <<"Oak", "Avenue">>, <<"Rear", "Lane">>,
      <<"Lane", "Avenue">>, <<>>>>

FinderClasses == <<"street", "service", "alley", "path">>

FinderLayers == <<"road", "driveway">>

TwoPointLine == <<<<-20, -8>>, <<40, -8>>>>

ThreePointLine == <<<<-20, -8>>, <<6, -8>>, <<40, -8>>>>

FinderGeometries ==
    <<[type |-> "LineString", coordinates |-> TwoPointLine],
      [type |-> "LineString", coordinates |-> ThreePointLine],
      [type |-> "LineString", coordinates |-> <<<<6, -8>>>>],
      [type |-> "MultiLineString", coordinates |-> <<TwoPointLine, ThreePointLine>>],
      [type |-> "MultiLineString", coordinates |-> <<TwoPointLine, <<<<6, -8>>>>>>],
      [type |-> "Polygon", coordinates |-> <<ThreePointLine>>]>>

FinderFeature(name, className, sourceLayer, geometry) ==
    [type |-> "Feature", geometry |-> geometry,
     properties |-> [name |-> name, class |-> className], sourceLayer |-> sourceLayer]

\* Every name, class and source layer on one line: feature k of 0..47.
ClassifiedFeature(k) ==
    FinderFeature(FinderNames[(k % 6) + 1], FinderClasses[((k \div 6) % 4) + 1],
                  FinderLayers[(k \div 24) + 1], FinderGeometries[1])

\* One road in two spellings and every geometry: feature k of 0..11.
RepeatedFeature(k) ==
    FinderFeature(FinderNames[(k % 2) + 1], "street", "road",
                  FinderGeometries[(k \div 2) + 1])

\* The features the provider can return, by number.
FinderCatalogue(k) == IF k < 12 THEN RepeatedFeature(k) ELSE ClassifiedFeature(k - 12)

\* What map.queryRenderedFeatures can return for the edge, as the numbers
\* of the features: one or two of any, or three of the repeated road.
FinderAnswers ==
    [1..1 -> 0..59] \cup [1..2 -> 0..59] \cup [1..3 -> 0..11]

InitFinder ==
    /\ \E answer \in FinderAnswers :
          finder = Some([features |-> [i \in 1..Len(answer) |-> FinderCatalogue(answer[i])],
                         converted |-> None, candidates |-> None])
    /\ IdleAnalysis
    /\ IdleRing
    /\ IdleIndex
    /\ IdleOrientation
    /\ IdleRender
    /\ IdleSelection
    /\ IdleOpposite
    /\ IdleEvaluator
    /\ IdleHook
    /\ IdleHistory
    /\ IdleFetch

\* features.map(toRoadCandidate), with the nulls still in place.
ConvertedFeatures(features) == [i \in 1..Len(features) |-> toRoadCandidate(features[i])]

\* queryRoadCandidatesForEdge after the query: the map, the filter and
\* uniqueCandidates.
BuildCandidates ==
    /\ finder # None
    /\ finder[1].candidates = None
    /\ finder' = Some([finder[1] EXCEPT
                          !.converted = Some(ConvertedFeatures(finder[1].features)),
                          !.candidates = Some(uniqueCandidates(
                              FlattenSeq(ConvertedFeatures(finder[1].features))))])
    /\ UNCHANGED <<analysisVars, ringVars, indexVars, orientationVars, renderVars,
                   selectionVars, oppositeVars, evaluatorVars,
                   hookVars,
                   historyVars,
                   fetchVars>>

NextFinder == BuildCandidates

SpecFinder == InitFinder /\ [][NextFinder]_vars

-----------------------------------------------------------------------------
(* The selection hook (useParcelSelection) with the idle callbacks of the  *)
(* map (ParcelMap) and the handlers of App                                 *)
(*                                                                         *)
(* An action is a call together with the render that follows it: the memos *)
(* whose dependencies changed are recomputed and the effects whose         *)
(* dependencies changed are run.  The parcels are loaded once and do not   *)
(* change.  The tiles the map has rendered change on their own, and        *)
(* analyzeParcel sees the tiles of the moment it is called.                *)

\* Largest number of idle callbacks registered and not yet fired.
MaxIdleCallbacks == 2

\* Largest version of the rendered tiles.
MaxTiles == 1

HookParcels ==
    <<[geometry |-> [type |-> "Polygon", coordinates |-> TriangleCoordinates],
       properties |-> [id |-> "a", fullAddress |-> <<"123", "MAIN", "ST">>,
                       streetName |-> <<"MAIN", "ST">>]],
      [geometry |-> [type |-> "Polygon", coordinates |-> RectangleCoordinates],
       properties |-> [id |-> "b", fullAddress |-> <<>>, streetName |-> <<>>]]>>

\* The ids select can be called with: "x" is the id of no parcel.
HookIds == {"a", "b", "x"}

\* byId after the loop of byId.set: the last parcel of every id.
parcelsById(parcelList) ==
    [id \in {parcelList[i].properties.id : i \in 1..Len(parcelList)} |->
        parcelList[CHOOSE i \in 1..Len(parcelList) :
                      /\ parcelList[i].properties.id = id
                      /\ \A j \in (i + 1)..Len(parcelList) :
                            parcelList[j].properties.id # id]]

\* parcelsById.get(id) ?? null
ParcelById(id) ==
    IF id \in DOMAIN parcelsById(HookParcels) THEN Some(parcelsById(HookParcels)[id])
    ELSE None

\* What the map answers around the edges of a parcel with the given tiles:
\* nothing before the tiles are rendered, Main St. along edge 0 after.
TilesProvider(p, version) ==
    [rendered |-> RenderedFor(toRingEdges(RingOf(p)),
                              IF version = 0 THEN <<>> ELSE <<<<0, 1>>>>)]

\* analyzeParcel(parcel, map ?? undefined) with the tiles of the moment.
AnalysisWith(p, mapReady, version) ==
    analyzeParcel(p, IF mapReady THEN Some(TilesProvider(p, version)) ELSE None).result

\* The selectedParcel memo.
HookSelectedParcel(selectedId) ==
    IF IsSome(selectedId) THEN ParcelById(selectedId[1]) ELSE None

\* The analysis memo that shows the override of any parcel.
ExposedAnalysis_anyOverride(h) ==
    IF ~IsSome(h.selectedParcelId) THEN None
    ELSE IF IsSome(h.analysisOverride) THEN Some(h.analysisOverride[1].analysis)
    ELSE h.computedAnalysis

\* The analysis memo: what the hook returns as analysis.
ExposedAnalysis(h) ==
    IF ~IsSome(h.selectedParcelId) THEN None
    ELSE IF IsSome(h.analysisOverride)
            /\ h.analysisOverride[1].parcelId = h.selectedParcelId[1]
         THEN Some(h.analysisOverride[1].analysis)
    ELSE h.computedAnalysis

\* The computedAnalysis memo after a render: recomputed when selectedParcel
\* or map changed, kept otherwise.
ComputedAfter(h, selectedId, mapReady, version) ==
    IF HookSelectedParcel(selectedId) = HookSelectedParcel(h.selectedParcelId)
       /\ mapReady = h.mapReady
    THEN h.computedAnalysis
    ELSE IF IsSome(HookSelectedParcel(selectedId))
         THEN Some(AnalysisWith(HookSelectedParcel(selectedId)[1], mapReady, version))
    ELSE None

\* The effect of ParcelMap on selectedParcelId and selectedParcel: it runs
\* when one of them changed and registers a callback on a loaded map.
CallbacksAfter(h, selectedId, callbacks) ==
    IF selectedId = h.selectedParcelId THEN callbacks
    ELSE IF ~h.mapReady THEN callbacks
    ELSE IF ~IsSome(selectedId) \/ ~IsSome(HookSelectedParcel(selectedId)) THEN callbacks
    ELSE Append(callbacks, selectedId[1])

InitHook ==
    /\ hook = Some([selectedParcelId |-> None, analysisOverride |-> None,
                    computedAnalysis |-> None, mapReady |-> FALSE])
    /\ idleCallbacks = <<>>
    /\ tiles = 0
    /\ lastCall = ""
    /\ IdleAnalysis
    /\ IdleRing
    /\ IdleIndex
    /\ IdleOrientation
    /\ IdleRender
    /\ IdleSelection
    /\ IdleOpposite
    /\ IdleEvaluator
    /\ IdleFinder
    /\ IdleHistory
    /\ IdleFetch

\* setMap(map): the map is created and loaded.
SetMap ==
    /\ ~hook[1].mapReady
    /\ hook' = Some([hook[1] EXCEPT
                        !.mapReady = TRUE,
                        !.computedAnalysis =
                            ComputedAfter(hook[1], hook[1].selectedParcelId, TRUE, tiles)])
    /\ lastCall' = "setMap"
    /\ UNCHANGED <<idleCallbacks, tiles, analysisVars, ringVars, indexVars, orientationVars,
                   renderVars, selectionVars, oppositeVars, evaluatorVars, finderVars,
                   historyVars,
                   fetchVars>>

\* select(parcelId)
SelectParcel ==
    /\ Len(idleCallbacks) < MaxIdleCallbacks
    /\ \E parcelId \in HookIds :
          /\ hook' = Some([hook[1] EXCEPT
                              !.analysisOverride = None,
                              !.selectedParcelId = Some(parcelId),
                              !.computedAnalysis =
                                  ComputedAfter(hook[1], Some(parcelId), hook[1].mapReady,
                                                tiles)])
          /\ idleCallbacks' = CallbacksAfter(hook[1], Some(parcelId), idleCallbacks)
    /\ lastCall' = "select"
    /\ UNCHANGED <<tiles, analysisVars, ringVars, indexVars, orientationVars,
                   renderVars, selectionVars, oppositeVars, evaluatorVars, finderVars,
                   historyVars,
                   fetchVars>>

\* refreshAnalysis(parcelId, currentMap): the override it sets, or the one
\* there was when the id is of no parcel.
RefreshedOverride(h, parcelId, version) ==
    IF ~IsSome(ParcelById(parcelId)) THEN h.analysisOverride
    ELSE Some([parcelId |-> parcelId,
               analysis |-> AnalysisWith(ParcelById(parcelId)[1], TRUE, version)])

\* One callback of map.once('idle') fires: handleParcelViewReady(parcelId)
\* and refreshAnalysis(parcelId, map).
IdleCallback ==
    /\ \E k \in 1..Len(idleCallbacks) :
          /\ idleCallbacks' = SubSeq(idleCallbacks, 1, k - 1)
                                \o SubSeq(idleCallbacks, k + 1, Len(idleCallbacks))
          /\ hook' = IF ~hook[1].mapReady THEN hook
                     ELSE Some([hook[1] EXCEPT
                                  !.analysisOverride =
                                      RefreshedOverride(hook[1], idleCallbacks[k], tiles)])
    /\ lastCall' = "refreshAnalysis"
    /\ UNCHANGED <<tiles, analysisVars, ringVars, indexVars, orientationVars,
                   renderVars, selectionVars, oppositeVars, evaluatorVars, finderVars,
                   historyVars,
                   fetchVars>>

\* The map renders other tiles; no state of the hook depends on them.
LoadTiles ==
    /\ hook[1].mapReady
    /\ \E version \in 0..MaxTiles : version # tiles /\ tiles' = version
    /\ lastCall' = "tiles"
    /\ UNCHANGED <<hook, idleCallbacks, analysisVars, ringVars, indexVars, orientationVars,
                   renderVars, selectionVars, oppositeVars, evaluatorVars, finderVars,
                   historyVars,
                   fetchVars>>

NextHook == SetMap \/ SelectParcel \/ IdleCallback \/ LoadTiles

SpecHook == InitHook /\ [][NextHook]_vars

-----------------------------------------------------------------------------
(* The search history (searchHistory.ts) under its hook (useSearchHistory) *)
(*                                                                         *)
(* A number of a record is [finite, value]; what JSON.stringify writes for *)
(* it is that number when it is finite and null otherwise.  The value      *)
(* stored is modelled by the list JSON.parse reads back from it.           *)

MAX_HISTORY_ITEMS == 10

\* Largest number of pushes since the history was last empty.
MaxPushes == 12

\* Largest number of those pushes that repeat an id pushed before.
MaxRepeats == 2

FiniteNumber(n) == [type |-> "number", finite |-> TRUE, value |-> n]

\* Infinity, -Infinity or NaN.
NonFiniteNumber == [type |-> "number", finite |-> FALSE, value |-> 0]

JsonNull == [type |-> "null", finite |-> FALSE, value |-> 0]

RecordIds == <<"p01", "p02", "p03", "p04", "p05", "p06", "p07", "p08", "p09", "p10",
               "p11", "p12">>

\* The record pushed for the k-th id: the third has a longitude that is not
\* finite.  A record pushed again carries another address.
SearchRecordOf(k, address) ==
    [id |-> RecordIds[k], address |-> address,
     lon |-> IF k = 3 THEN NonFiniteNumber ELSE FiniteNumber(k),
     lat |-> FiniteNumber(49), streetName |-> "MAIN ST"]

\* JSON.stringify of a number, as JSON.parse reads it back.
StringifiedNumber(number) == IF number.finite THEN number ELSE JsonNull

\* JSON.stringify of the list, as JSON.parse reads it back.
Stringified(items) ==
    [i \in 1..Len(items) |->
        [items[i] EXCEPT !.lon = StringifiedNumber(@), !.lat = StringifiedNumber(@)]]

\* items.slice(0, MAX_HISTORY_ITEMS)
Bounded(items) == SubSeq(items, 1, Min(Len(items), MAX_HISTORY_ITEMS))

\* The value saveSearchHistory stores.
saveSearchHistory(items) == Some(Stringified(Bounded(items)))

\* item && typeof item.id === 'string' && typeof item.address === 'string'
IsHistoryItem(item) == item.id \in STRING /\ item.address \in STRING

loadSearchHistory(stored) ==
    IF stored = None THEN <<>> ELSE Bounded(SelectSeq(stored[1], IsHistoryItem))

\* pushSearchHistory that appends the item instead of putting it first.
pushSearchHistory_append(current, item) ==
    LET NotItem(entry) == entry.id # item.id
    IN  Bounded(SelectSeq(current, NotItem) \o <<item>>)

\* The list pushSearchHistory returns; it stores the same list.
pushSearchHistory(current, item) ==
    LET NotItem(entry) == entry.id # item.id
    IN  Bounded(<<item>> \o SelectSeq(current, NotItem))

PushedIds == {pushed[i].id : i \in 1..Len(pushed)}

\* The pushes that repeated an id.
Repeats == {i \in 1..Len(pushed) : \E j \in 1..(i - 1) : pushed[j].id = pushed[i].id}

\* The items a push can carry: the next id not yet pushed, or again, with
\* another address, the second or the last record of the history or the
\* first record ever pushed.
PushableItems ==
    (IF Cardinality(PushedIds) < Len(RecordIds)
     THEN {SearchRecordOf(Cardinality(PushedIds) + 1, "first")}
     ELSE {})
      \cup (IF Cardinality(Repeats) < MaxRepeats
            THEN {[searchHistory[i] EXCEPT !.address = "again"] :
                     i \in {2, Len(searchHistory)} \cap 1..Len(searchHistory)}
                 \cup {[pushed[i] EXCEPT !.address = "again"] : i \in {1} \cap 1..Len(pushed)}
            ELSE {})

InitHistory ==
    /\ storage = None
    /\ searchHistory = loadSearchHistory(None)
    /\ pushResult = None
    /\ pushed = <<>>
    /\ lastHistoryCall = ""
    /\ IdleAnalysis
    /\ IdleRing
    /\ IdleIndex
    /\ IdleOrientation
    /\ IdleRender
    /\ IdleSelection
    /\ IdleOpposite
    /\ IdleEvaluator
    /\ IdleFinder
    /\ IdleHook
    /\ IdleFetch

\* push(item): setSearchHistory(current => pushSearchHistory(current, item))
Push ==
    /\ Len(pushed) < MaxPushes
    /\ \E item \in PushableItems :
          /\ searchHistory' = pushSearchHistory(searchHistory, item)
          /\ storage' = saveSearchHistory(pushSearchHistory(searchHistory, item))
          /\ pushResult' = Some(pushSearchHistory(searchHistory, item))
          /\ pushed' = Append(pushed, item)
    /\ lastHistoryCall' = "push"
    /\ UNCHANGED <<analysisVars, ringVars, indexVars, orientationVars, renderVars,
                   selectionVars, oppositeVars, evaluatorVars, finderVars, hookVars,
                   fetchVars>>

\* clear(): clearSearchHistory() and setSearchHistory([])
Clear ==
    /\ storage' = None
    /\ searchHistory' = <<>>
    /\ pushResult' = None
    /\ pushed' = <<>>
    /\ lastHistoryCall' = "clear"
    /\ UNCHANGED <<analysisVars, ringVars, indexVars, orientationVars, renderVars,
                   selectionVars, oppositeVars, evaluatorVars, finderVars, hookVars,
                   fetchVars>>

NextHistory == Push \/ Clear

SpecHistory == InitHistory /\ [][NextHistory]_vars

-----------------------------------------------------------------------------
(* fetchJsonWithRetry (scripts/fetch-parcels.mjs)                          *)
(*                                                                         *)
(* fetchPc is "loop" at the test of the while loop, "fetching" while the   *)
(* fetch, the read of the body and the parse are awaited, "sleeping" while *)
(* sleep(delayMs) is awaited, and "returned" or "thrown" at the end.       *)

MAX_RETRIES == 4

RETRY_BASE_DELAY_MS == 600

\* What fails an attempt: fetch rejects, the response is not ok, the read
\* of the body rejects, or JSON.parse throws.
AttemptErrors == {"fetch failed", "HTTP 503", "SyntaxError"}

\* The values JSON.parse can return.
Payloads == {"FeatureCollection", "null"}

\* The delay that grows with nothing.
RetryDelay_constant(failed) == RETRY_BASE_DELAY_MS

\* delayMs after the attempt counter was incremented.
RetryDelay(failed) == RETRY_BASE_DELAY_MS * failed

InitFetch ==
    /\ fetchPc = "loop"
    /\ attempt = 0
    /\ fetches = 0
    /\ waits = <<>>
    /\ errors = <<>>
    /\ payload = None
    /\ IdleAnalysis
    /\ IdleRing
    /\ IdleIndex
    /\ IdleOrientation
    /\ IdleRender
    /\ IdleSelection
    /\ IdleOpposite
    /\ IdleEvaluator
    /\ IdleFinder
    /\ IdleHook
    /\ IdleHistory

\* while (attempt <= MAX_RETRIES) and the call of fetch(url); past the loop,
\* the final throw.
StartAttempt ==
    /\ fetchPc = "loop"
    /\ IF attempt <= MAX_RETRIES
       THEN fetchPc' = "fetching" /\ fetches' = fetches + 1
       ELSE fetchPc' = "thrown" /\ fetches' = fetches
    /\ UNCHANGED <<attempt, waits, errors, payload, analysisVars, ringVars, indexVars,
                   orientationVars, renderVars, selectionVars, oppositeVars, evaluatorVars,
                   finderVars, hookVars, historyVars>>

\* The response is ok, its body is read and parsed: return JSON.parse(text).
AttemptSucceeds ==
    /\ fetchPc = "fetching"
    /\ \E parsed \in Payloads : payload' = Some(parsed)
    /\ fetchPc' = "returned"
    /\ UNCHANGED <<attempt, fetches, waits, errors, analysisVars, ringVars, indexVars,
                   orientationVars, renderVars, selectionVars, oppositeVars, evaluatorVars,
                   finderVars, hookVars, historyVars>>

\* The catch block: the counter, the throw after the last attempt, or the
\* start of the sleep.
AttemptFails ==
    /\ fetchPc = "fetching"
    /\ \E error \in AttemptErrors : errors' = Append(errors, error)
    /\ attempt' = attempt + 1
    /\ IF attempt + 1 > MAX_RETRIES
       THEN fetchPc' = "thrown" /\ waits' = waits
       ELSE fetchPc' = "sleeping" /\ waits' = Append(waits, RetryDelay(attempt + 1))
    /\ UNCHANGED <<fetches, payload, analysisVars, ringVars, indexVars,
                   orientationVars, renderVars, selectionVars, oppositeVars, evaluatorVars,
                   finderVars, hookVars, historyVars>>

\* The timer of sleep(delayMs) fires.
Wake ==
    /\ fetchPc = "sleeping"
    /\ fetchPc' = "loop"
    /\ UNCHANGED <<attempt, fetches, waits, errors, payload, analysisVars, ringVars,
                   indexVars, orientationVars, renderVars, selectionVars, oppositeVars,
                   evaluatorVars, finderVars, hookVars, historyVars>>

NextFetch == StartAttempt \/ AttemptSucceeds \/ AttemptFails \/ Wake

SpecFetch == InitFetch /\ [][NextFetch]_vars

\* The function runs on, every awaited fetch settles (the runtime bounds the
\* time a fetch may take) and every timer fires.
SpecFetchFair ==
    /\ SpecFetch
    /\ WF_vars(StartAttempt)
    /\ WF_vars(AttemptSucceeds \/ AttemptFails)
    /\ WF_vars(Wake)

-----------------------------------------------------------------------------
(* State functions used by the properties                                  *)

Returned == calls >= 1

ResultEdges == analysis[1].edges

EdgesTyped(type) == {i \in 1..Len(ResultEdges) : ResultEdges[i].type = type}

FrontageCount == Cardinality(EdgesTyped("Frontage"))

\* The provider returned no feature for any edge, or no map was supplied.
NoFeaturesAnywhere ==
    \/ map = None
    \/ \A index \in DOMAIN map[1].rendered : Len(map[1].rendered[index]) = 0

-----------------------------------------------------------------------------
(* C1  Frontage count                                                      *)

\* C1 (as claimed): in every result of analyzeParcel exactly one edge is
\* typed Frontage when double-fronting was not detected and exactly two when
\* it was, for any ring and any provider response.
C1_FrontageCountAnyRing ==
    Returned => FrontageCount = (IF trace[1].isDoubleFronting THEN 2 ELSE 1)

\* C1 (amended): in every result of analyzeParcel on a ring of at least two
\* positions (a ring that yields at least one edge), exactly one edge is
\* typed Frontage when double-fronting was not detected and exactly two when
\* it was; a ring of fewer than two positions yields no edge and so no
\* Frontage edge.
C1_FrontageCount ==
    Returned =>
        IF Len(RingOf(parcel[1])) >= 2
        THEN FrontageCount = (IF trace[1].isDoubleFronting THEN 2 ELSE 1)
        ELSE FrontageCount = 0 /\ ~trace[1].isDoubleFronting

\* A result with double-fronting detected and two Frontage edges.
C1_Witness ==
    Returned /\ trace[1].isDoubleFronting /\ FrontageCount = 2

-----------------------------------------------------------------------------
(* C2  Flankage and the lot type                                           *)

Locals == trace[1]

Result == analysis[1]

\* The edges that are neither the frontage edge nor its opposite edge.
SideIndexes ==
    {ResultEdges[i].index : i \in 1..Len(ResultEdges)}
        \ {Locals.frontageIndex, Locals.oppositeIndex}

\* A street candidate of an edge with a name different from the resolved
\* frontage street.
IsDifferentStreet(candidate) ==
    /\ candidate.kind = "street"
    /\ Len(normalizeStreetName(candidate.name)) > 0
    /\ normalizeStreetName(candidate.name) # Locals.frontageStreetNormalized

HasDifferentStreetWithin(index, distanceLimit, orientationLimit) ==
    \E k \in 1..Len(MatchesOf(Locals.edgeMatches, index)) :
        LET candidate == MatchesOf(Locals.edgeMatches, index)[k]
        IN  /\ IsDifferentStreet(candidate)
            /\ candidate.distanceMeters <= distanceLimit
            /\ candidate.orientationDiffDeg <= orientationLimit

HasStrictDifferentStreet(index) ==
    HasDifferentStreetWithin(index, ROAD_PROXIMITY_THRESHOLD_METERS,
                             ROAD_ORIENTATION_THRESHOLD_DEG)

\* The opposite edge of the result is adjacent to a lane.
LaneOnOpposite ==
    \E i \in 1..Len(ResultEdges) :
        /\ ResultEdges[i].index = Locals.oppositeIndex
        /\ ResultEdges[i].isRoadAdjacent
        /\ ResultEdges[i].roadKind = "lane"

\* C2 (as claimed): whenever at least one edge of the result is typed
\* Flankage, by the strict or by the relaxed pass, the lot type is Corner Lot,
\* whether or not the opposite edge is adjacent to a lane; and a side edge
\* within the relaxed street thresholds (30 m, 85 degrees) of a differently
\* named street is typed Flankage with lot type Corner Lot even when a lane
\* is present on the opposite edge.
C2_FlankageAlwaysCorner ==
    Returned =>
        /\ EdgesTyped("Flankage") # {} => Result.lotType = "Corner Lot"
        /\ \A index \in SideIndexes :
              HasDifferentStreetWithin(index, RELAXED_FRONTAGE_STREET_DISTANCE_METERS,
                                       RELAXED_FRONTAGE_STREET_ORIENTATION_DEG)
              => /\ ResultEdges[index + 1].type = "Flankage"
                 /\ Result.lotType = "Corner Lot"

\* C2 (amended): whenever at least one edge of the result is typed Flankage,
\* the lot type is Corner Lot, except when the flankage was found only by the
\* relaxed pass and the opposite edge is adjacent to a lane: then the edges
\* stay typed Flankage but the lot type is Standard with Lane.  A side edge
\* with a differently named street within the strict street thresholds is
\* typed Flankage and the lot type is Corner Lot even when a lane is present
\* on the opposite edge; when no side edge has one, a side edge with a
\* differently named street within the relaxed flankage thresholds (24 m, 70
\* degrees) is typed Flankage.
C2_FlankageCornerUnlessWeak ==
    Returned =>
        /\ EdgesTyped("Flankage") # {} =>
              Result.lotType = (IF Locals.usedRelaxedFlankage /\ LaneOnOpposite
                                THEN "Standard with Lane" ELSE "Corner Lot")
        /\ \A index \in SideIndexes :
              /\ HasStrictDifferentStreet(index)
                 => /\ ResultEdges[index + 1].type = "Flankage"
                    /\ Result.lotType = "Corner Lot"
                    /\ ~Locals.usedRelaxedFlankage
              /\ (/\ \A other \in SideIndexes : ~HasStrictDifferentStreet(other)
                  /\ HasDifferentStreetWithin(index,
                                              RELAXED_FLANKAGE_STREET_DISTANCE_METERS,
                                              RELAXED_FLANKAGE_STREET_ORIENTATION_DEG))
                 => /\ ResultEdges[index + 1].type = "Flankage"
                    /\ Locals.usedRelaxedFlankage

\* A rectangle with a strictly matched flankage edge and a lane on the
\* opposite edge: Corner Lot.
C2_Witness ==
    /\ Returned
    /\ RingOf(parcel[1]) = RectangleCoordinates[1]
    /\ EdgesTyped("Flankage") # {}
    /\ ~Locals.usedRelaxedFlankage
    /\ LaneOnOpposite
    /\ Result.lotType = "Corner Lot"

\* A rectangle whose only flankage edge was found by the relaxed pass, with a
\* lane on the opposite edge: Standard with Lane.
C2_WeakFlankageReached ==
    /\ Returned
    /\ RingOf(parcel[1]) = RectangleCoordinates[1]
    /\ EdgesTyped("Flankage") # {}
    /\ Locals.usedRelaxedFlankage
    /\ LaneOnOpposite
    /\ Result.lotType = "Standard with Lane"

-----------------------------------------------------------------------------
(* C3  No line features at all                                             *)

\* The index of the first of the longest edges of the result.
FirstLongestIndex ==
    ResultEdges[CHOOSE i \in 1..Len(ResultEdges) :
                   /\ \A j \in 1..Len(ResultEdges) :
                         ResultEdges[j].lengthMeters <= ResultEdges[i].lengthMeters
                   /\ \A j \in 1..(i - 1) :
                         ResultEdges[j].lengthMeters < ResultEdges[i].lengthMeters].index

\* C3 (as claimed): when the provider returns no line feature for any edge,
\* or no map is supplied, every edge of the result has type Side, the lot
\* type is Standard without Lane and the confidence is low.
C3_AllSideWithoutFeatures ==
    (Returned /\ NoFeaturesAnywhere) =>
        /\ \A i \in 1..Len(ResultEdges) : ResultEdges[i].type = "Side"
        /\ Result.lotType = "Standard without Lane"
        /\ Result.confidence = "low"

\* C3 (amended): when the provider returns no line feature for any edge, or
\* no map is supplied, the first of the longest edges is typed Frontage by the
\* longest-edge fallback, its opposite edge (when the ring has two edges or
\* more) is typed Rear, every other edge is typed Side, no edge is adjacent to
\* a road, the lot type is Standard without Lane and the confidence is low.
C3_FallbackWithoutFeatures ==
    (Returned /\ NoFeaturesAnywhere) =>
        /\ Result.lotType = "Standard without Lane"
        /\ Result.confidence = "low"
        /\ Len(ResultEdges) > 0 => Locals.frontageIndex = FirstLongestIndex
        /\ Cardinality(EdgesTyped("Rear")) = (IF Len(ResultEdges) >= 2 THEN 1 ELSE 0)
        /\ \A i \in 1..Len(ResultEdges) :
              /\ ResultEdges[i].type =
                    (IF ResultEdges[i].index = Locals.frontageIndex THEN "Frontage"
                     ELSE IF ResultEdges[i].index = Locals.oppositeIndex THEN "Rear"
                     ELSE "Side")
              /\ ~ResultEdges[i].isRoadAdjacent
              /\ ResultEdges[i].roadKind = Null

\* The rectangle analysed with a map that returns nothing: one Frontage, one
\* Rear and two Side edges.
C3_Witness ==
    /\ Returned
    /\ NoFeaturesAnywhere
    /\ map # None
    /\ RingOf(parcel[1]) = RectangleCoordinates[1]
    /\ Cardinality(EdgesTyped("Frontage")) = 1
    /\ Cardinality(EdgesTyped("Rear")) = 1
    /\ Cardinality(EdgesTyped("Side")) = 2

-----------------------------------------------------------------------------
(* C4  Main Street in front, Rear Lane behind                              *)

MainStreetNormalized == normalizeStreetName(<<"Main", "Street">>)

CandidatesAt(index) == MatchesOf(Locals.edgeMatches, index)

\* The edge has a street candidate named Main Street within 10 m and 10
\* degrees.
MainStreetNear(index) ==
    \E k \in 1..Len(CandidatesAt(index)) :
        /\ CandidatesAt(index)[k].kind = "street"
        /\ normalizeStreetName(CandidatesAt(index)[k].name) = MainStreetNormalized
        /\ CandidatesAt(index)[k].distanceMeters <= 10
        /\ CandidatesAt(index)[k].orientationDiffDeg <= 10

\* The edge has a lane candidate named Rear Lane within 15 m and 20 degrees.
RearLaneNear(index) ==
    \E k \in 1..Len(CandidatesAt(index)) :
        /\ CandidatesAt(index)[k].kind = "lane"
        /\ CandidatesAt(index)[k].name = <<"Rear", "Lane">>
        /\ CandidatesAt(index)[k].distanceMeters <= 15
        /\ CandidatesAt(index)[k].orientationDiffDeg <= 20

\* The scenario on the rectangle, with the Main-Street edge at index front.
MainStreetRearLane(front) ==
    /\ Returned
    /\ RingOf(parcel[1]) = RectangleCoordinates[1]
    /\ MainStreetNear(front)
    /\ RearLaneNear((front + 2) % 4)

\* The provider returned two features in all: the scenario's two.
OnlyTwoFeatures ==
    /\ map # None
    /\ Len(FlattenSeq([i \in 1..Len(ResultEdges) |->
                          map[1].rendered[ResultEdges[i].index]])) = 2

\* The scenario's outcome apart from the confidence.
FrontageAndRearLane(front) ==
    /\ ResultEdges[front + 1].type = "Frontage"
    /\ Locals.oppositeIndex = (front + 2) % 4
    /\ ResultEdges[((front + 2) % 4) + 1].type = "Rear Lane"
    /\ Result.lotType = "Standard with Lane"

\* No edge other than front competes for the frontage, and no edge other
\* than front has a differently named street in reach of the double-fronting
\* or flankage checks.
NoCompetingStreet(front) ==
    \A index \in (0..3) \ {front} :
        \A k \in 1..Len(CandidatesAt(index)) :
            LET candidate == CandidatesAt(index)[k]
                name == normalizeStreetName(candidate.name)
            IN  candidate.kind = "street" =>
                    /\ ~(name = MainStreetNormalized /\ candidate.isAdjacent)
                    /\ ~(/\ Len(name) > 0
                         /\ name # MainStreetNormalized
                         /\ \/ candidate.isAdjacent
                            \/ isRelaxedStreetCandidateForMode(candidate, "frontage"))

C4_UndeclaredStreetReached ==
    \E front \in 0..3 :
        /\ MainStreetRearLane(front)
        /\ OnlyTwoFeatures
        /\ Len(Locals.normalizedPrimaryStreet) = 0
        /\ Result.confidence = "medium"

-----------------------------------------------------------------------------
(* C5  Idempotence                                                         *)

-----------------------------------------------------------------------------
(* C8  Degenerate and empty rings                                          *)

\* The ring is missing, has no point or one point, or encloses no area.
DegenerateRing ==
    \/ Len(RingOf(parcel[1])) < 2
    \/ area(parcel[1].geometry.coordinates) = 0

EmptyResult ==
    /\ ResultEdges = <<>>
    /\ Result.lotType = "Standard without Lane"
    /\ Result.confidence = "low"

\* C8 (as claimed): for a degenerate or empty ring (missing ring, zero
\* points, one point, or points that enclose no area) analyzeParcel returns
\* an empty edge list, lot type Standard without Lane and confidence low.
C8_DegenerateRingEmpty ==
    (Returned /\ DegenerateRing) => EmptyResult

\* C8 (amended): for a ring of fewer than two positions (missing ring, zero
\* points, one point) analyzeParcel returns an empty edge list, area 0, lot
\* type Standard without Lane and confidence low; a ring of two positions or
\* more yields one edge per consecutive pair of positions even when its
\* points enclose no area, and is classified like any other ring.
C8_ShortRingEmpty ==
    Returned =>
        IF Len(RingOf(parcel[1])) < 2
        THEN EmptyResult /\ Result.areaM2 = 0
        ELSE Len(ResultEdges) = Len(RingOf(parcel[1])) - 1

\* A one-point ring analysed with a map.
C8_Witness ==
    /\ Returned
    /\ Len(RingOf(parcel[1])) = 1
    /\ map # None
    /\ EmptyResult

\* A ring that encloses no area and still yields a Frontage edge.
C8_FlatRingReached ==
    /\ Returned
    /\ Len(RingOf(parcel[1])) >= 2
    /\ area(parcel[1].geometry.coordinates) = 0
    /\ FrontageCount = 1

-----------------------------------------------------------------------------
(* C10  Lot type priority                                                  *)

FlankageEdgeCount == Cardinality(EdgesTyped("Flankage"))

\* No side edge has a differently named street within the strict thresholds:
\* flankage, if any, comes from the relaxed pass.
OnlyRelaxedFlankage == \A index \in SideIndexes : ~HasStrictDifferentStreet(index)

\* C10: the lot type is decided first-match: Corner Lot iff the flankage
\* count is positive and it is not the case that flankage was found only by
\* the relaxed pass while the opposite edge is lane-adjacent; otherwise
\* Double Fronting iff double-fronting was detected; otherwise Standard with
\* Lane iff the opposite edge is adjacent to a lane; otherwise Standard
\* without Lane.
C10_LotTypeFirstMatch ==
    Returned =>
        Result.lotType =
            (IF FlankageEdgeCount > 0 /\ ~(OnlyRelaxedFlankage /\ LaneOnOpposite)
             THEN "Corner Lot"
             ELSE IF Locals.isDoubleFronting THEN "Double Fronting"
             ELSE IF LaneOnOpposite THEN "Standard with Lane"
             ELSE "Standard without Lane")

\* Flankage and double-fronting both detected: the first rule wins.
C10_Witness ==
    /\ Returned
    /\ FlankageEdgeCount > 0
    /\ Locals.isDoubleFronting
    /\ Result.lotType = "Corner Lot"

-----------------------------------------------------------------------------
(* C9  toRingEdges                                                         *)

\* C9: for a ring of N >= 3 positions toRingEdges returns exactly N - 1
\* edges in ring order; the edge at array position i (from 0) has index i,
\* starts at ring[i] and ends at ring[i + 1], so that edge.index is the
\* edge's position in the list, and the closing position adds no edge.
C9_OneEdgePerPair ==
    (/\ IsSome(ringEdges)
     /\ Len(coordinates) >= 3
     /\ \A i \in 1..Len(coordinates) : IsPosition(coordinates[i]))
    => /\ Len(ringEdges[1]) = Len(coordinates) - 1
       /\ \A i \in 0..(Len(coordinates) - 2) :
             /\ ringEdges[1][i + 1].index = i
             /\ ringEdges[1][i + 1].start = coordinates[i + 1]
             /\ ringEdges[1][i + 1].end = coordinates[i + 2]

\* A closed ring of four positions, the last repeating the first, with its
\* three edges.
C9_Witness ==
    /\ IsSome(ringEdges)
    /\ Len(coordinates) = 4
    /\ \A i \in 1..4 : IsPosition(coordinates[i])
    /\ coordinates[4] = coordinates[1]
    /\ coordinates[2] # coordinates[3]
    /\ Len(ringEdges[1]) = 3

-----------------------------------------------------------------------------
(* C6, C7  Viewport queries                                                *)

Queried == IsSome(selected)

QueryCap == query[1].options.maxFeatures

\* The padding of the query in percent.
QueryPaddingPercent ==
    IF IsSome(query[1].options.paddingRatio) THEN query[1].options.paddingRatio[1]
    ELSE DefaultPaddingPercent

\* Positions, in the list given to buildParcelViewportIndex, of the parcels
\* with a finite reference point inside the query's bounds expanded on each
\* side by the padding ratio times the bounds' own span on that axis.
MatchingPositions ==
    LET bounds == query[1].bounds
        lonPad == ((bounds.east - bounds.west) * QueryPaddingPercent) \div 100
        latPad == ((bounds.north - bounds.south) * QueryPaddingPercent) \div 100
    IN  {i \in 1..Len(parcels) :
            /\ NumberIsFinite(parcels[i].properties.lon)
            /\ NumberIsFinite(parcels[i].properties.lat)
            /\ parcels[i].properties.lon[1] >= bounds.west - lonPad
            /\ parcels[i].properties.lon[1] <= bounds.east + lonPad
            /\ parcels[i].properties.lat[1] >= bounds.south - latPad
            /\ parcels[i].properties.lat[1] <= bounds.north + latPad}

ReturnedPositions ==
    {i \in 1..Len(parcels) : \E k \in 1..Len(selected[1]) : selected[1][k] = parcels[i]}

\* Four times the squared distance from a parcel to the supplied center, or
\* to the center of the padded box when none is supplied.
SquaredDistance(parcelFeature) ==
    LET bounds == query[1].bounds
        center == query[1].options.center
        cx == IF IsSome(center) THEN 2 * center[1][1] ELSE bounds.west + bounds.east
        cy == IF IsSome(center) THEN 2 * center[1][2] ELSE bounds.south + bounds.north
        dx == 2 * parcelFeature.properties.lon[1] - cx
        dy == 2 * parcelFeature.properties.lat[1] - cy
    IN  dx * dx + dy * dy

\* C6: every parcel returned by queryParcelsInBounds has its reference point
\* inside the padded bounds, and the number of parcels returned never
\* exceeds the cap, for every index, bounds, padding ratio, cap and center.
C6_InsidePaddedAndCapped ==
    Queried =>
        /\ ReturnedPositions \subseteq MatchingPositions
        /\ \A k \in 1..Len(selected[1]) :
              \E i \in 1..Len(parcels) : parcels[i] = selected[1][k]
        /\ IsSome(QueryCap) => Len(selected[1]) <= QueryCap[1]

\* A capped query that left out a parcel outside the padded bounds and one
\* inside them.
C6_Witness ==
    /\ Queried
    /\ IsSome(QueryCap)
    /\ QueryCap[1] >= 1
    /\ Len(selected[1]) = QueryCap[1]
    /\ Cardinality(MatchingPositions) > QueryCap[1]
    /\ \E i \in 1..Len(parcels) :
          /\ NumberIsFinite(parcels[i].properties.lon)
          /\ i \notin MatchingPositions

\* C7: when more parcels match the padded bounds than the cap allows,
\* queryParcelsInBounds returns exactly cap parcels, in non-decreasing order
\* of squared distance to the supplied center (to the padded box's center
\* when none is supplied), and no matching parcel left out is strictly
\* nearer to that center than a returned one.
C7_NearestUnderCap ==
    (/\ Queried
     /\ IsSome(QueryCap)
     /\ Cardinality(MatchingPositions) > QueryCap[1])
    => /\ Len(selected[1]) = QueryCap[1]
       /\ \A k \in 1..(Len(selected[1]) - 1) :
             SquaredDistance(selected[1][k]) <= SquaredDistance(selected[1][k + 1])
       /\ \A i \in MatchingPositions \ ReturnedPositions :
             \A k \in 1..Len(selected[1]) :
                 ~(SquaredDistance(parcels[i]) < SquaredDistance(selected[1][k]))

\* Three matching parcels at different distances from the center, capped to
\* two.
C7_Witness ==
    /\ Queried
    /\ IsSome(QueryCap)
    /\ QueryCap[1] = 2
    /\ Cardinality(MatchingPositions) = 3
    /\ Len(selected[1]) = 2
    /\ \E i \in MatchingPositions \ ReturnedPositions :
          SquaredDistance(parcels[i]) > SquaredDistance(selected[1][2])
    /\ SquaredDistance(selected[1][1]) < SquaredDistance(selected[1][2])

-----------------------------------------------------------------------------
(* C11  Relaxed fallbacks and the confidence                               *)

\* The edge of the result was stamped with a street match that is beyond the
\* strict street thresholds: a relaxed match.
StampedWithRelaxedStreet(index) ==
    /\ index >= 0
    /\ ResultEdges[index + 1].isRoadAdjacent
    /\ ResultEdges[index + 1].roadKind = "street"
    /\ \/ ResultEdges[index + 1].roadDistanceMeters > ROAD_PROXIMITY_THRESHOLD_METERS
       \/ ResultEdges[index + 1].orientationDiffDeg > ROAD_ORIENTATION_THRESHOLD_DEG

\* Some relaxed-threshold fallback was used in the analysis.
RelaxedFallbackUsed ==
    \/ Locals.frontageStep \in {"name-relaxed", "any-relaxed"}
    \/ StampedWithRelaxedStreet(Locals.frontageIndex)
    \/ Locals.isDoubleFronting /\ StampedWithRelaxedStreet(Locals.oppositeIndex)
    \/ Locals.usedRelaxedFlankage
    \/ Locals.usedRelaxedLane

\* C11 (as claimed): if any relaxed-threshold fallback was used anywhere in
\* an analysis (relaxed name-match or any-street frontage pass, a relaxed
\* street match stamped on the frontage or on a second frontage, the relaxed
\* flankage pass, the relaxed lane match), the confidence is not high.
C11_RelaxedNeverHigh ==
    (Returned /\ RelaxedFallbackUsed) => Result.confidence # "high"

\* What the confidence rules do guarantee: the relaxed flankage pass and the
\* relaxed lane match rule out high, and so does a frontage not matched by
\* the declared street name; the relaxed name-match frontage pass does not.
C11_TrackedFallbacksNeverHigh ==
    Returned =>
        /\ (Locals.usedRelaxedFlankage \/ Locals.usedRelaxedLane
            \/ ~Locals.frontageMatchedByPrimaryStreet)
           => Result.confidence # "high"
        /\ (/\ Locals.frontageMatchedByPrimaryStreet
            /\ ~Locals.usedRelaxedFlankage
            /\ ~Locals.usedRelaxedLane)
           => Result.confidence = "high"

\* The frontage was found by the relaxed name-match pass and the confidence
\* is high.
C11_RelaxedNameMatchHigh ==
    /\ Returned
    /\ Locals.frontageStep = "name-relaxed"
    /\ Result.confidence = "high"

-----------------------------------------------------------------------------
(* C12  Orientation difference                                             *)

\* C12: parallelOrientationDiffDeg(a, b) equals parallelOrientationDiffDeg(b,
\* a) and lies between 0 and 90 inclusive, for all bearings a and b, negative
\* bearings and bearings beyond 360 included.
C12_SymmetricWithinQuarterTurn ==
    IsSome(orientationDiffs) =>
        /\ orientationDiffs[1][1] = orientationDiffs[1][2]
        /\ orientationDiffs[1][1] >= 0
        /\ orientationDiffs[1][1] <= 90

\* A negative bearing against a bearing beyond 360: -10 and 365 are 15
\* degrees apart.
C12_Witness ==
    /\ bearings = <<-10, 365>>
    /\ orientationDiffs = Some(<<15, 15>>)

-----------------------------------------------------------------------------
(* C13, C14: the rendered parcel set                                       *)

\* The parcel selected in the current render, or null.
SelectedParcel == selectedParcelOf(parcels, selectedParcelId)

\* The parcels handed to the map layer in the current render.
MapParcels == mapParcels(renderedParcels, SelectedParcel)

C14_SelectedParcelExactlyOnce ==
    IsSome(SelectedParcel) =>
        Cardinality({i \in 1..Len(MapParcels) : MapParcels[i] = SelectedParcel[1]}) = 1

\* What the code guarantees: the selected parcel is there exactly once when
\* no two parcels of the parcel set and the rendered set share an id.
C14_SelectedOnceAmongUniqueIds ==
    (/\ IsSome(SelectedParcel)
     /\ \A p, q \in {parcels[i] : i \in 1..Len(parcels)}
                     \cup {renderedParcels[i] : i \in 1..Len(renderedParcels)} :
           p.properties.id = q.properties.id => p = q)
    => Cardinality({i \in 1..Len(MapParcels) : MapParcels[i] = SelectedParcel[1]}) = 1

\* The selected parcel is absent from mapParcels: the rendered set holds
\* the other parcel of its id.
C14_SelectedParcelMissing ==
    /\ IsSome(SelectedParcel)
    /\ \A i \in 1..Len(MapParcels) : MapParcels[i] # SelectedParcel[1]
    /\ \E i \in 1..Len(renderedParcels) :
          renderedParcels[i].properties.id = SelectedParcel[1].properties.id

-----------------------------------------------------------------------------
(* C15: the order of the frontage selection steps                          *)

\* The edge has a street candidate, named as the primary street when named
\* is TRUE, that is strictly adjacent or, when relaxed is TRUE, within the
\* relaxed frontage thresholds.
HasFrontageStreet(index, named, relaxed) ==
    \E k \in 1..Len(CandidatesAt(index)) :
        LET candidate == CandidatesAt(index)[k]
        IN  /\ candidate.kind = "street"
            /\ named => normalizeStreetName(candidate.name) = Locals.normalizedPrimaryStreet
            /\ \/ candidate.isAdjacent
               \/ /\ relaxed
                  /\ candidate.distanceMeters <= RELAXED_FRONTAGE_STREET_DISTANCE_METERS
                  /\ candidate.orientationDiffDeg <= RELAXED_FRONTAGE_STREET_ORIENTATION_DEG

\* The edges that qualify under a step of the frontage selection.
FrontageQualifiers(named, relaxed) ==
    {ResultEdges[i].index : i \in {j \in 1..Len(ResultEdges) :
                                      HasFrontageStreet(ResultEdges[j].index, named, relaxed)}}

\* The edges that qualify under a step by name, when a primary street is
\* declared: without one the steps by name are not tried.
DeclaredQualifiers(relaxed) ==
    IF Len(Locals.normalizedPrimaryStreet) = 0 THEN {}
    ELSE FrontageQualifiers(TRUE, relaxed)

\* The frontage edge qualifies under the first step under which some edge
\* qualifies, given the edges that qualify under steps (a) and (b).
FrontageFollowsSteps(byNameStrict, byNameRelaxed) ==
    /\ Locals.frontageIndex \in {ResultEdges[i].index : i \in 1..Len(ResultEdges)}
    /\ IF byNameStrict # {} THEN Locals.frontageIndex \in byNameStrict
       ELSE IF byNameRelaxed # {} THEN Locals.frontageIndex \in byNameRelaxed
       ELSE IF FrontageQualifiers(FALSE, FALSE) # {}
       THEN Locals.frontageIndex \in FrontageQualifiers(FALSE, FALSE)
       ELSE IF FrontageQualifiers(FALSE, TRUE) # {}
       THEN Locals.frontageIndex \in FrontageQualifiers(FALSE, TRUE)
       ELSE Locals.frontageIndex = FirstLongestIndex

-----------------------------------------------------------------------------
(* C16: the tie bands of selectNearestEdgeByStreetCandidate                *)

\* The matched distance of an edge given to the selection.
MatchedDistance(index) == selection[1].edgeMatches[index][1].distanceMeters

\* C16: among the eligible edges, the matched distance of the selected
\* edge is never more than 3 m greater than the smallest matched distance,
\* for every number of eligible edges and every order.
C16_SelectedWithinTieBand ==
    (IsSome(chosen) /\ IsSome(chosen[1])) =>
        \A index \in DOMAIN selection[1].edgeMatches :
            MatchedDistance(chosen[1][1].index)
                <= MatchedDistance(index) + EDGE_SELECTION_DISTANCE_TIE_METERS

\* What the code guarantees: the bound holds between two eligible edges.
C16_WithinTieBandOfTwo ==
    (IsSome(chosen) /\ IsSome(chosen[1]) /\ Len(selection[1].edges) <= 2) =>
        \A index \in DOMAIN selection[1].edgeMatches :
            MatchedDistance(chosen[1][1].index)
                <= MatchedDistance(index) + EDGE_SELECTION_DISTANCE_TIE_METERS

\* Three eligible edges, each 3 m farther and 2 m longer than the one
\* before: the last is selected, 6 m farther than the first.
C16_DriftReached ==
    /\ IsSome(chosen) /\ IsSome(chosen[1])
    /\ Len(selection[1].edges) = 3
    /\ chosen[1][1].index = 2
    /\ MatchedDistance(0) = 0
    /\ MatchedDistance(2) = 6

-----------------------------------------------------------------------------
(* C17: double fronting                                                    *)

\* The candidate is a street within the relaxed frontage thresholds (a
\* strictly adjacent street is within them).
IsFrontageStreet(candidate) ==
    /\ candidate.kind = "street"
    /\ \/ candidate.isAdjacent
       \/ /\ candidate.distanceMeters <= RELAXED_FRONTAGE_STREET_DISTANCE_METERS
          /\ candidate.orientationDiffDeg <= RELAXED_FRONTAGE_STREET_ORIENTATION_DEG

\* Some such candidate of the opposite edge has a name that differs from
\* the resolved frontage street.
OppositeHasDifferentStreet ==
    \E k \in 1..Len(CandidatesAt(Locals.oppositeIndex)) :
        /\ IsFrontageStreet(CandidatesAt(Locals.oppositeIndex)[k])
        /\ IsDifferentStreet(CandidatesAt(Locals.oppositeIndex)[k])

\* The first such candidate of the opposite edge has a name that differs
\* from the resolved frontage street.
OppositeBestIsDifferentStreet ==
    \E k \in 1..Len(CandidatesAt(Locals.oppositeIndex)) :
        /\ IsFrontageStreet(CandidatesAt(Locals.oppositeIndex)[k])
        /\ IsDifferentStreet(CandidatesAt(Locals.oppositeIndex)[k])
        /\ \A j \in 1..(k - 1) : ~IsFrontageStreet(CandidatesAt(Locals.oppositeIndex)[j])

\* When double fronting is detected the opposite edge is a frontage on a
\* street and no edge is the rear.
SecondFrontageStamped ==
    Locals.isDoubleFronting =>
        \A i \in 1..Len(ResultEdges) :
            ResultEdges[i].index = Locals.oppositeIndex =>
                /\ ResultEdges[i].type = "Frontage"
                /\ ResultEdges[i].roadKind = "street"

\* C17 (as claimed): double fronting is detected iff the opposite edge has
\* a street candidate, strictly adjacent or within the relaxed thresholds,
\* whose normalized name is not empty and differs from the resolved
\* frontage street; the opposite edge then ends as a Frontage on a street,
\* never Rear or Rear Lane.
C17_DoubleFrontingIffDifferentStreet ==
    Returned =>
        /\ Locals.isDoubleFronting <=> (Locals.oppositeIndex >= 0 /\ OppositeHasDifferentStreet)
        /\ SecondFrontageStamped

\* C17 (amended): double fronting is detected iff the resolved frontage
\* street is not empty and the first street candidate of the opposite edge
\* that is strictly adjacent or within the relaxed thresholds has a
\* normalized name that is not empty and differs from it.
C17_DoubleFrontingIffBestDiffers ==
    Returned =>
        /\ Locals.isDoubleFronting <=>
              /\ Locals.oppositeIndex >= 0
              /\ Len(Locals.frontageStreetNormalized) > 0
              /\ OppositeBestIsDifferentStreet
        /\ SecondFrontageStamped

\* Double fronting is detected on an opposite edge that also has a lane
\* candidate within the strict lane thresholds.
C17_Witness ==
    /\ Returned
    /\ Locals.isDoubleFronting
    /\ \E k \in 1..Len(CandidatesAt(Locals.oppositeIndex)) :
          /\ CandidatesAt(Locals.oppositeIndex)[k].kind = "lane"
          /\ CandidatesAt(Locals.oppositeIndex)[k].isAdjacent

-----------------------------------------------------------------------------
(* C18: flankage                                                           *)

\* The edge has a differently named street within the relaxed flankage
\* thresholds (a strictly adjacent street is within them).
HasRelaxedDifferentStreet(index) ==
    HasDifferentStreetWithin(index, RELAXED_FLANKAGE_STREET_DISTANCE_METERS,
                             RELAXED_FLANKAGE_STREET_ORIENTATION_DEG)

\* C18: an edge ends with type Flankage iff it is neither the frontage edge
\* nor the opposite edge and has a named street candidate, with another
\* name than the resolved frontage street, that is strictly adjacent or,
\* only when no such edge qualifies strictly, within the relaxed flankage
\* thresholds.  The frontage and opposite edges are never Flankage, and the
\* relaxed pass is not used when the strict pass stamped an edge.
C18_FlankageIffDifferentStreet ==
    Returned =>
        /\ \A i \in 1..Len(ResultEdges) :
              ResultEdges[i].type = "Flankage" <=>
                  /\ ResultEdges[i].index \in SideIndexes
                  /\ \/ HasStrictDifferentStreet(ResultEdges[i].index)
                     \/ /\ OnlyRelaxedFlankage
                        /\ HasRelaxedDifferentStreet(ResultEdges[i].index)
        /\ Locals.usedRelaxedFlankage => OnlyRelaxedFlankage

\* The strict pass stamped a flankage edge and left as it was another side
\* edge whose differently named street is only within the relaxed
\* thresholds.
C18_Witness ==
    /\ Returned
    /\ \E i, j \in 1..Len(ResultEdges) :
          /\ ResultEdges[i].type = "Flankage"
          /\ HasStrictDifferentStreet(ResultEdges[i].index)
          /\ ResultEdges[j].index \in SideIndexes
          /\ ResultEdges[j].type # "Flankage"
          /\ HasRelaxedDifferentStreet(ResultEdges[j].index)

-----------------------------------------------------------------------------
(* C19: rear and rear lane                                                 *)

\* The candidate is a lane within the relaxed lane thresholds (a strictly
\* adjacent lane is within them).
IsRearLane(candidate) ==
    /\ candidate.kind = "lane"
    /\ \/ candidate.isAdjacent
       \/ /\ candidate.distanceMeters <= RELAXED_LANE_DISTANCE_METERS
          /\ candidate.orientationDiffDeg <= RELAXED_LANE_ORIENTATION_DEG

\* The lane matched to the opposite edge, the first such candidate, is
\* within the relaxed thresholds only.
OppositeLaneOnlyRelaxed ==
    \E k \in 1..Len(CandidatesAt(Locals.oppositeIndex)) :
        /\ IsRearLane(CandidatesAt(Locals.oppositeIndex)[k])
        /\ ~CandidatesAt(Locals.oppositeIndex)[k].isAdjacent
        /\ \A j \in 1..(k - 1) : ~IsRearLane(CandidatesAt(Locals.oppositeIndex)[j])

\* The positions of the edges typed Rear or Rear Lane.
RearPositions == EdgesTyped("Rear") \cup EdgesTyped("Rear Lane")

-----------------------------------------------------------------------------
(* C20: the opposite edge                                                  *)

\* The edges given to findOppositeEdgeIndex, the frontage index given and
\* the index returned.
OppositeEdges == opposite[1].edges

FrontageGiven == opposite[1].frontageIndex

OppositeFound == opposite[1].oppositeIndex[1]

OppositeReturned == opposite # None /\ opposite[1].oppositeIndex # None

\* The non-frontage edges with their orientation difference from the
\* frontage, distances and score (ten times the score, a whole number).
ScoredOthers ==
    OppositeCandidates(OppositeEdges, EdgeAt(OppositeEdges, FrontageGiven)[1], FrontageGiven)

ScoredWithin(maxOrientationDiffDeg) ==
    {k \in 1..Len(ScoredOthers) : ScoredOthers[k].orientationDiffDeg <= maxOrientationDiffDeg}

\* The edge at position k of ScoredOthers has the largest score of tier.
LargestScoreOf(k, tier) ==
    k \in tier /\ \A other \in tier : ScoredOthers[other].score <= ScoredOthers[k].score

\* C20: with at least two edges the opposite edge exists, is not the
\* frontage edge, and is the non-frontage edge with the largest score
\* (perpendicular distance + 0.2 x midpoint distance) among those within 38
\* degrees of the frontage; failing any, among those within 62 degrees;
\* failing any, the edge with the farthest midpoint.
C20_OppositeByScoreThenFarthest ==
    (OppositeReturned /\ Len(OppositeEdges) >= 2) =>
        /\ OppositeFound >= 0
        /\ OppositeFound # FrontageGiven
        /\ \E k \in 1..Len(ScoredOthers) :
              /\ ScoredOthers[k].index = OppositeFound
              /\ IF ScoredWithin(OPPOSITE_EDGE_STRICT_ORIENTATION_DEG) # {}
                 THEN LargestScoreOf(k, ScoredWithin(OPPOSITE_EDGE_STRICT_ORIENTATION_DEG))
                 ELSE IF ScoredWithin(OPPOSITE_EDGE_RELAXED_ORIENTATION_DEG) # {}
                 THEN LargestScoreOf(k, ScoredWithin(OPPOSITE_EDGE_RELAXED_ORIENTATION_DEG))
                 ELSE \A other \in 1..Len(ScoredOthers) :
                         ScoredOthers[other].midpointDistanceMeters
                             <= ScoredOthers[k].midpointDistanceMeters

\* The opposite edge was chosen among the edges within 62 degrees, none
\* being within 38 degrees, against another edge of a smaller score.
C20_RelaxedTierReached ==
    /\ OppositeReturned
    /\ ScoredWithin(OPPOSITE_EDGE_STRICT_ORIENTATION_DEG) = {}
    /\ \E k, other \in ScoredWithin(OPPOSITE_EDGE_RELAXED_ORIENTATION_DEG) :
          /\ ScoredOthers[k].index = OppositeFound
          /\ ScoredOthers[other].score < ScoredOthers[k].score

\* No edge is within 62 degrees: the opposite edge is the farthest one.
C20_FarthestTierReached ==
    /\ OppositeReturned
    /\ ScoredWithin(OPPOSITE_EDGE_RELAXED_ORIENTATION_DEG) = {}
    /\ Len(ScoredOthers) >= 2

\* Several edges are within 38 degrees of the frontage; the one chosen has
\* a larger score than another of them, and an edge beyond 38 degrees has a
\* larger score than the one chosen.
C20_Witness ==
    /\ OppositeReturned
    /\ \E k, other \in ScoredWithin(OPPOSITE_EDGE_STRICT_ORIENTATION_DEG) :
          /\ ScoredOthers[k].index = OppositeFound
          /\ ScoredOthers[other].score < ScoredOthers[k].score
          /\ \E beyond \in 1..Len(ScoredOthers) :
                /\ beyond \notin ScoredWithin(OPPOSITE_EDGE_STRICT_ORIENTATION_DEG)
                /\ ScoredOthers[beyond].score > ScoredOthers[k].score

-----------------------------------------------------------------------------
(* C21: the segment an evaluated candidate stores                          *)

EvaluatorDone == evaluation # None /\ evaluation[1].evaluated # None

\* Distance and orientation difference of one segment from the edge.
SegmentDistance(edge, segment) ==
    pointToLineDistance(edge.midpoint, segment[1], segment[2])

SegmentOrientation(edge, segment) ==
    parallelOrientationDiffDeg(bearingDegrees(edge.start, edge.end),
                               bearingDegrees(segment[1], segment[2]))

\* distance + 0.45 * orientationDiff of a segment, times 100.
SegmentScore(edge, segment) ==
    100 * SegmentDistance(edge, segment) + 45 * SegmentOrientation(edge, segment)

\* The first segment of the minimal score.
FirstBestSegment(edge, segments) ==
    CHOOSE k \in 1..Len(segments) :
       /\ \A j \in 1..Len(segments) :
             SegmentScore(edge, segments[k]) <= SegmentScore(edge, segments[j])
       /\ \A j \in 1..(k - 1) :
             SegmentScore(edge, segments[j]) > SegmentScore(edge, segments[k])

\* The result stores the pair of the given segment and is adjacent by the
\* thresholds of its kind.
StoresSegment(edge, result, segment) ==
    /\ result.distanceMeters = SegmentDistance(edge, segment)
    /\ result.orientationDiffDeg = SegmentOrientation(edge, segment)
    /\ result.isAdjacent <=>
          IF result.kind = "lane"
          THEN result.distanceMeters <= 28 /\ result.orientationDiffDeg <= 85
          ELSE result.distanceMeters <= 20 /\ result.orientationDiffDeg <= 55

\* The results of a candidate: the evaluated entries that carry its name.
ResultsOf(evaluated, candidate) ==
    {i \in 1..Len(evaluated) : evaluated[i].name = candidate.name}

EvaluatedAsClaimed(edge, candidates, evaluated) ==
    /\ \A c \in 1..Len(candidates) :
          IF SegmentsOf(candidates[c].lines) = <<>>
          THEN ResultsOf(evaluated, candidates[c]) = {}
          ELSE /\ Cardinality(ResultsOf(evaluated, candidates[c])) = 1
               /\ \A i \in ResultsOf(evaluated, candidates[c]) :
                     /\ evaluated[i].kind = candidates[c].kind
                     /\ StoresSegment(edge, evaluated[i],
                           SegmentsOf(candidates[c].lines)[
                              FirstBestSegment(edge, SegmentsOf(candidates[c].lines))])
    /\ \A i \in 1..Len(evaluated) :
          \E c \in 1..Len(candidates) : evaluated[i].name = candidates[c].name
    /\ \A i \in 1..(Len(evaluated) - 1) :
          \/ 100 * evaluated[i].distanceMeters + 45 * evaluated[i].orientationDiffDeg
               < 100 * evaluated[i + 1].distanceMeters
                 + 45 * evaluated[i + 1].orientationDiffDeg
          \/ /\ 100 * evaluated[i].distanceMeters + 45 * evaluated[i].orientationDiffDeg
                  = 100 * evaluated[i + 1].distanceMeters
                    + 45 * evaluated[i + 1].orientationDiffDeg
             /\ evaluated[i].distanceMeters <= evaluated[i + 1].distanceMeters

\* C21: every evaluated candidate stores the distance and the orientation
\* difference of the first segment, over all segments of all its lines, that
\* minimises distance + 0.45 * orientationDiff; it is adjacent exactly when
\* that pair is within 20 m and 55 degrees for a street or 28 m and 85
\* degrees for a lane; a candidate with no segment has no result; and the
\* list is in ascending order of score, then of distance.
C21_EvaluatedStoresBestSegment ==
    EvaluatorDone =>
       EvaluatedAsClaimed(evaluation[1].edge, evaluation[1].candidates,
                          evaluation[1].evaluated[1])

\* Two candidates are evaluated, the first over several segments of two
\* lines of which a later one is the best, and the nearest segment is not
\* the one it stores.
C21_Witness_LaterSegmentOfSecondLine ==
    /\ EvaluatorDone
    /\ Len(evaluation[1].evaluated[1]) = 2
    /\ Len(evaluation[1].candidates[1].lines) = 2
    /\ \E segments \in {SegmentsOf(evaluation[1].candidates[1].lines)} :
          /\ Len(segments) = 3
          /\ FirstBestSegment(evaluation[1].edge, segments) = 3
          /\ \E j \in 1..2 :
                SegmentDistance(evaluation[1].edge, segments[j])
                  < SegmentDistance(evaluation[1].edge, segments[3])

-----------------------------------------------------------------------------
(* C22: the candidates kept for an edge                                    *)

FinderDone == finder # None /\ finder[1].candidates # None

\* The candidates of the provider's road-like features, in provider order.
RoadLikeCandidates == FlattenSeq(finder[1].converted[1])

KeptCandidates == finder[1].candidates[1]

LowerName(name) == [i \in 1..Len(name) |-> toLowerCase(name[i])]

\* (name, class, kind, source layer) compared case-insensitively, with the
\* given count.
KeyWithCount(candidate, count) ==
    <<LowerName(candidate.name), toLowerCase(candidate.className), candidate.kind,
      toLowerCase(candidate.sourceLayer), count>>

\* The key with the number of segments of the candidate's lines.
SegmentCountKey(candidate) == KeyWithCount(candidate, Len(SegmentsOf(candidate.lines)))

\* The key with the number of lines of the candidate.
LineCountKey(candidate) == KeyWithCount(candidate, Len(candidate.lines))

\* No two kept candidates share a key, every key of the road-like
\* candidates is kept, and the candidate kept for it is the first with it.
KeptOncePerKey(all, kept, keys) ==
    /\ \A i, j \in 1..Len(kept) : keys[kept[i]] = keys[kept[j]] => i = j
    /\ \A a \in 1..Len(all) :
          \E i \in 1..Len(kept) :
             /\ keys[kept[i]] = keys[all[a]]
             /\ \E first \in 1..a :
                   /\ keys[all[first]] = keys[all[a]]
                   /\ \A earlier \in 1..(first - 1) : keys[all[earlier]] # keys[all[a]]
                   /\ kept[i] = all[first]
    /\ \A i \in 1..Len(kept) : \E a \in 1..Len(all) : kept[i] = all[a]

CandidatesSeen == {RoadLikeCandidates[i] : i \in 1..Len(RoadLikeCandidates)}

\* C22 as claimed: with keys of (name, class, kind, source layer, segment
\* count) compared case-insensitively, no two candidates of the list built
\* for an edge share a key, every key among the road-like features is
\* represented once, and the candidate kept is the first in provider order.
C22_KeptOncePerSegmentCountKey ==
    FinderDone =>
       KeptOncePerKey(RoadLikeCandidates, KeptCandidates,
                      [c \in CandidatesSeen |-> SegmentCountKey(c)])

\* C22 as the code has it: the same with the number of lines of the
\* candidate (one per line string of the geometry with two or more
\* positions) in place of the segment count.
C22_KeptOncePerLineCountKey ==
    FinderDone =>
       KeptOncePerKey(RoadLikeCandidates, KeptCandidates,
                      [c \in CandidatesSeen |-> LineCountKey(c)])

\* Three road-like features, the first and the third of one key in
\* different spellings, the second of another: two are kept.
C22_Witness_LaterSpellingDropped ==
    /\ FinderDone
    /\ Len(RoadLikeCandidates) = 3
    /\ Len(KeptCandidates) = 2
    /\ RoadLikeCandidates[1].name # RoadLikeCandidates[3].name
    /\ LineCountKey(RoadLikeCandidates[1]) = LineCountKey(RoadLikeCandidates[3])
    /\ LineCountKey(RoadLikeCandidates[1]) # LineCountKey(RoadLikeCandidates[2])

-----------------------------------------------------------------------------
(* C23: the kind of a road-like line feature                               *)

\* The last word of the normalized name, or "" for an empty name.
LastNameWord(name) ==
    IF Len(normalizeStreetName(name)) = 0 THEN ""
    ELSE normalizeStreetName(name)[Len(normalizeStreetName(name))]

\* The words of the class and of the source layer, in lower case.
ClassWords(feature) ==
    {toLowerCase(feature.properties.class), toLowerCase(feature.sourceLayer)}

\* The kind by the stated rules, in their order.
StatedKind(feature) ==
    IF LastNameWord(feature.properties.name) = "lane" THEN "lane"
    ELSE IF LastNameWord(feature.properties.name) \in ExplicitStreetWords THEN "street"
    ELSE IF ClassWords(feature) \cap {"lane", "alley", "driveway", "access"} # {} THEN "lane"
    ELSE IF /\ "service" \in ClassWords(feature)
            /\ ~AnyWordIn(normalizeStreetName(feature.properties.name), ExplicitStreetWords)
         THEN "lane"
    ELSE "street"

\* C23: every road-like line feature has the kind lane if its name ends in
\* "lane"; street if its name ends in a street-type suffix, whatever its
\* class says; otherwise lane if its class or source layer is lane, alley,
\* driveway or access-like, or is "service" and the name holds no street
\* suffix; otherwise street.
C23_KindByStatedRules ==
    FinderDone =>
       \A i \in 1..Len(finder[1].features) :
          finder[1].converted[1][i] # None =>
             finder[1].converted[1][i][1].kind = StatedKind(finder[1].features[i])

\* A feature named with a street-type suffix other than "street" in a
\* lane-like class has been classified.
C23_AvenueInAlleyClassified ==
    /\ FinderDone
    /\ \E i \in 1..Len(finder[1].features) :
          /\ finder[1].converted[1][i] # None
          /\ LastNameWord(finder[1].features[i].properties.name) = "avenue"
          /\ finder[1].features[i].properties.class = "alley"

\* Names that end in " lane" or " street", and names without a lane word
\* whose class and layer are not lane-like, have the stated kind.
C23_KindByStatedRulesOnSuffixedNames ==
    FinderDone =>
       \A i \in 1..Len(finder[1].features) :
          (/\ finder[1].converted[1][i] # None
           /\ \/ LastNameWord(finder[1].features[i].properties.name) \in {"lane", "street"}
              \/ /\ ~AnyWordIn(normalizeStreetName(finder[1].features[i].properties.name),
                               ExplicitLaneWords)
                 /\ ClassWords(finder[1].features[i])
                       \cap {"lane", "alley", "driveway", "access"} = {})
          => finder[1].converted[1][i][1].kind = StatedKind(finder[1].features[i])

-----------------------------------------------------------------------------
(* C24: low and medium confidence                                          *)

\* Some edge has a street candidate that is strictly adjacent or within the
\* relaxed frontage thresholds.
SomeEdgeHasFrontageStreet == FrontageQualifiers(FALSE, TRUE) # {}

\* C24: the confidence is low exactly when the frontage was not selected by
\* a match of the primary street name and no edge has a street candidate
\* strictly adjacent or within the relaxed frontage thresholds; it is medium
\* when the frontage was not matched by name and some edge has one.
C24_LowIffNoNameMatchAndNoStreet ==
    Returned =>
       /\ Result.confidence = "low" <=>
             (~Locals.frontageMatchedByPrimaryStreet /\ ~SomeEdgeHasFrontageStreet)
       /\ (~Locals.frontageMatchedByPrimaryStreet /\ SomeEdgeHasFrontageStreet)
             => Result.confidence = "medium"

\* The confidence is low although the rear lane was found by the relaxed
\* pass.
C24_Witness_LowWithRelaxedLane ==
    /\ Returned
    /\ Result.confidence = "low"
    /\ Locals.usedRelaxedLane
    /\ Len(ResultEdges) >= 2

\* The confidence is medium without a match by name, on a lot that is not
\* double fronting.
C24_MediumReached ==
    /\ Returned
    /\ Result.confidence = "medium"
    /\ ~Locals.frontageMatchedByPrimaryStreet
    /\ Result.lotType # "Double Fronting"
    /\ ~Locals.usedRelaxedFlankage
    /\ ~Locals.usedRelaxedLane

-----------------------------------------------------------------------------
(* C29: road kind, adjacency and type of every edge                        *)

\* C29: in every result, an edge has a road kind exactly when it is road
\* adjacent; a Flankage edge has road kind street and is road adjacent; a
\* Rear Lane edge has road kind lane and is road adjacent; a Rear edge never
\* has road kind lane.
C29_RoadKindAgreesWithTypeAndAdjacency ==
    Returned =>
       \A i \in 1..Len(ResultEdges) :
          /\ (ResultEdges[i].roadKind # Null) <=> ResultEdges[i].isRoadAdjacent
          /\ ResultEdges[i].type = "Flankage" =>
                (ResultEdges[i].roadKind = "street" /\ ResultEdges[i].isRoadAdjacent)
          /\ ResultEdges[i].type = "Rear Lane" =>
                (ResultEdges[i].roadKind = "lane" /\ ResultEdges[i].isRoadAdjacent)
          /\ ResultEdges[i].type = "Rear" => ResultEdges[i].roadKind # "lane"

\* One result has a Flankage edge and a Rear Lane edge matched by the
\* relaxed pass to a lane that is not adjacent by itself.
C29_Witness_FlankageAndRelaxedLane ==
    /\ Returned
    /\ EdgesTyped("Flankage") # {}
    /\ EdgesTyped("Rear Lane") # {}
    /\ Locals.usedRelaxedLane

\* An edge whose nearest candidate is not adjacent keeps its distance and
\* has no road kind.
C29_FarRoadReached ==
    /\ Returned
    /\ \E i \in 1..Len(ResultEdges) :
          /\ ResultEdges[i].roadDistanceMeters # NoNumber
          /\ ~ResultEdges[i].isRoadAdjacent

\* A Rear edge with a street beside it is reached.
C29_RearWithStreetReached ==
    /\ Returned
    /\ \E i \in EdgesTyped("Rear") : ResultEdges[i].roadKind = "street"

-----------------------------------------------------------------------------
(* C30: what a low confidence implies                                      *)

\* C30: whenever the confidence is low, the frontage edge, if there is one,
\* was chosen by the longest-edge fallback and is the lowest-index edge among
\* those of maximal length; double fronting was not detected; no edge is
\* typed Flankage; and the lot type is Standard with Lane or Standard
\* without Lane.
C30_LowConfidenceMeansFallbackFrontage ==
    (Returned /\ Result.confidence = "low") =>
       /\ Locals.frontageIndex >= 0 =>
             /\ Locals.frontageStep = "longest"
             /\ Locals.frontageIndex = FirstLongestIndex
       /\ ~Locals.isDoubleFronting
       /\ EdgesTyped("Flankage") = {}
       /\ Result.lotType \in {"Standard with Lane", "Standard without Lane"}

\* The confidence is low on a ring of three or more edges, two of them of
\* the maximal length, with a lane on the opposite edge and a road near
\* another edge.
C30_Witness_LowWithLaneAndTiedLongest ==
    /\ Returned
    /\ Result.confidence = "low"
    /\ Len(ResultEdges) >= 3
    /\ Result.lotType = "Standard with Lane"
    /\ \E i, j \in 1..Len(ResultEdges) :
          /\ i # j
          /\ ResultEdges[i].lengthMeters = ResultEdges[j].lengthMeters
          /\ \A k \in 1..Len(ResultEdges) :
                ResultEdges[k].lengthMeters <= ResultEdges[i].lengthMeters
    /\ \E i \in EdgesTyped("Side") : ResultEdges[i].roadDistanceMeters # NoNumber

-----------------------------------------------------------------------------
(* C25: a query without a cap returns every matching parcel once           *)

\* How many times the parcel occurs in the list.
Occurrences(list, parcelFeature) ==
    Cardinality({k \in 1..Len(list) : list[k] = parcelFeature})

WellFormedBounds ==
    /\ query[1].bounds.west <= query[1].bounds.east
    /\ query[1].bounds.south <= query[1].bounds.north

\* C25: for an index built from a list of parcels and bounds with west <=
\* east and south <= north, a query without a cap returns exactly the
\* parcels of the list whose reference point is finite and inside the padded
\* box, each once: the cells visited never miss a matching parcel, and a
\* parcel without a finite longitude or latitude is never returned.
C25_UncappedQueryReturnsAllMatching ==
    (Queried /\ ~IsSome(QueryCap) /\ WellFormedBounds) =>
       /\ \A i \in 1..Len(parcels) :
             Occurrences(selected[1], parcels[i]) =
                IF i \in MatchingPositions THEN Occurrences(parcels, parcels[i]) ELSE 0
       /\ \A k \in 1..Len(selected[1]) : \E i \in 1..Len(parcels) : parcels[i] = selected[1][k]

\* A query without a cap over several cells returned two parcels of one
\* cell and left out a parcel outside the box and one without a finite
\* coordinate.
C25_Witness_TwoOfOneCellReturned ==
    /\ Queried
    /\ ~IsSome(QueryCap)
    /\ WellFormedBounds
    /\ viewportIndex[1].cellSizeDeg = 300
    /\ query[1].bounds.west < query[1].bounds.east
    /\ Len(parcels) = 3
    /\ Len(selected[1]) = 2
    /\ selected[1][1].properties.lon = selected[1][2].properties.lon
    /\ selected[1][1].properties.lat = selected[1][2].properties.lat
    /\ \E i \in 1..Len(parcels) :
          ~NumberIsFinite(parcels[i].properties.lon) \/ ~NumberIsFinite(parcels[i].properties.lat)

\* A matching parcel with a negative longitude is returned.
C25_NegativeCellReached ==
    /\ Queried
    /\ ~IsSome(QueryCap)
    /\ WellFormedBounds
    /\ \E k \in 1..Len(selected[1]) : selected[1][k].properties.lon[1] < 0

-----------------------------------------------------------------------------
(* C26: the analysis the selection hook exposes                            *)

\* The analyses of a parcel: without a map and with every version of the
\* tiles.
AnalysesOf(p) ==
    {AnalysisWith(p, FALSE, 0)} \cup {AnalysisWith(p, TRUE, version) : version \in 0..MaxTiles}

\* C26: under every interleaving of select calls and idle callbacks that
\* call refreshAnalysis, a callback of an earlier selection firing after a
\* later selection included, the analysis exposed is null or an analysis of
\* the parcel currently selected; an override for another parcel is never
\* shown; and select always clears the override.
C26_ExposedAnalysisIsOfSelectedParcel ==
    hook # None =>
       /\ \/ ExposedAnalysis(hook[1]) = None
          \/ /\ IsSome(HookSelectedParcel(hook[1].selectedParcelId))
             /\ ExposedAnalysis(hook[1])[1]
                   \in AnalysesOf(HookSelectedParcel(hook[1].selectedParcelId)[1])
       /\ (/\ IsSome(hook[1].analysisOverride)
           /\ IsSome(hook[1].selectedParcelId)
           /\ hook[1].analysisOverride[1].parcelId # hook[1].selectedParcelId[1])
          => ExposedAnalysis(hook[1]) = hook[1].computedAnalysis
       /\ lastCall = "select" => hook[1].analysisOverride = None

\* The callback of an earlier selection has fired after a later selection:
\* the override is for one parcel while another is selected, and the
\* analysis exposed is the one computed for the selected parcel.
C26_Witness_StaleCallbackFired ==
    /\ hook # None
    /\ lastCall = "refreshAnalysis"
    /\ IsSome(hook[1].analysisOverride)
    /\ hook[1].selectedParcelId = Some("b")
    /\ hook[1].analysisOverride[1].parcelId = "a"
    /\ ExposedAnalysis(hook[1]) # None

\* The override of the selected parcel is exposed and differs from the
\* analysis computed at selection: the tiles were rendered in between.
C26_FreshOverrideReached ==
    /\ hook # None
    /\ IsSome(hook[1].analysisOverride)
    /\ ExposedAnalysis(hook[1]) = Some(hook[1].analysisOverride[1].analysis)
    /\ ExposedAnalysis(hook[1]) # hook[1].computedAnalysis

-----------------------------------------------------------------------------
(* C27: the search history after pushes and clears                         *)

\* The pushes not followed by a push of the same id.
LatestPushes == {i \in 1..Len(pushed) : \A j \in (i + 1)..Len(pushed) : pushed[j].id # pushed[i].id}

\* The items last pushed for every id, the most recent first, up to ten.
MostRecentFirst ==
    [k \in 1..Min(Cardinality(LatestPushes), 10) |->
        pushed[CHOOSE i \in LatestPushes : Cardinality({j \in LatestPushes : j > i}) = k - 1]]

\* At most ten records, no two with one id, in most-recent-first order.
HistoryBoundedAndOrdered ==
    /\ Len(searchHistory) <= 10
    /\ \A i, j \in 1..Len(searchHistory) :
          searchHistory[i].id = searchHistory[j].id => i = j
    /\ searchHistory = MostRecentFirst

\* The same number in the list read back and in the list returned; with
\* nullIfNotFinite, a number that is not finite is read back as null.
SameNumber(readBack, number, nullIfNotFinite) ==
    IF nullIfNotFinite /\ ~number.finite THEN readBack.type = "null"
    ELSE readBack = number

\* The list read back from the storage is the list the push returned.
PersistedIsReturned(nullIfNotFinite) ==
    /\ Len(loadSearchHistory(storage)) = Len(pushResult[1])
    /\ \A i \in 1..Len(pushResult[1]) :
          /\ loadSearchHistory(storage)[i].id = pushResult[1][i].id
          /\ loadSearchHistory(storage)[i].address = pushResult[1][i].address
          /\ loadSearchHistory(storage)[i].streetName = pushResult[1][i].streetName
          /\ SameNumber(loadSearchHistory(storage)[i].lon, pushResult[1][i].lon,
                        nullIfNotFinite)
          /\ SameNumber(loadSearchHistory(storage)[i].lat, pushResult[1][i].lat,
                        nullIfNotFinite)

\* C27 as claimed: after any sequence of pushes and clears from an empty
\* history, the history holds at most 10 records, no two with one id, the
\* most recently pushed first and the rest in most-recent-first order; the
\* list persisted by a push equals the list the push returned; and after a
\* clear the history loaded is empty.
C27_HistoryOrderedAndPersisted ==
    /\ HistoryBoundedAndOrdered
    /\ lastHistoryCall = "push" =>
          (searchHistory = pushResult[1] /\ PersistedIsReturned(FALSE))
    /\ lastHistoryCall = "clear" => loadSearchHistory(storage) = <<>>

\* C27 as the code has it: the same, with the list persisted by a push equal
\* to the list returned except that a longitude or latitude that is not a
\* finite number is persisted as null.
C27_HistoryOrderedAndPersistedAsJson ==
    /\ HistoryBoundedAndOrdered
    /\ lastHistoryCall = "push" =>
          (searchHistory = pushResult[1] /\ PersistedIsReturned(TRUE))
    /\ lastHistoryCall = "clear" => loadSearchHistory(storage) = <<>>

\* Eleven ids were pushed, one of them again: the history holds ten
\* records, the record pushed again first with its new address, and the
\* oldest id is gone.
C27_Witness_FullHistoryWithRepeat ==
    /\ lastHistoryCall = "push"
    /\ Len(pushed) = MaxPushes
    /\ Cardinality(Repeats) >= 1
    /\ Len(searchHistory) = 10
    /\ searchHistory[1].address = "again"
    /\ Cardinality(PushedIds) > 10
    /\ \E i \in 1..Len(searchHistory) : ~searchHistory[i].lon.finite

\* A clear after pushes left nothing to load.
C27_ClearedReached ==
    /\ lastHistoryCall = "clear"
    /\ storage = None
    /\ searchHistory = <<>>

-----------------------------------------------------------------------------
(* C28: fetchJsonWithRetry terminates within five attempts                 *)

FetchEnded == fetchPc \in {"returned", "thrown"}

\* At most five fetches; a wait of 600 ms times k after the k-th failure
\* and before the next fetch; a return at the first success, with no
\* further fetch; a throw after the fifth failure, with no further wait.
FetchWithinBounds ==
    /\ fetches <= 5
    /\ Len(errors) = attempt
    /\ \A k \in 1..Len(waits) : waits[k] = 600 * k
    /\ fetchPc \in {"loop", "sleeping"} => (fetches = attempt /\ Len(waits) = attempt)
    /\ fetchPc = "fetching" => (fetches = attempt + 1 /\ Len(waits) = attempt)
    /\ fetchPc = "returned" =>
          (payload # None /\ fetches = Len(errors) + 1 /\ Len(waits) = Len(errors))
    /\ fetchPc = "thrown" =>
          (payload = None /\ fetches = 5 /\ Len(errors) = 5 /\ Len(waits) = 4)
    /\ payload # None => fetchPc = "returned"

C28_ThrownReached ==
    /\ fetchPc = "thrown"
    /\ fetches = 5
    /\ waits = <<600, 1200, 1800, 2400>>

=============================================================================
